---- MODULE Spec2Model ----
(***************************************************************************)
(* A model of the Ultravox <-> WebRTC bridge of examples/webrtc/main.go:   *)
(* SDP negotiation, the ICE connection-state callback, the single-slot     *)
(* registry of the active Ultravox connection, the inbound audio loop      *)
(* (handleIncomingAudio), the voice-session read loop                      *)
(* (handleUltravoxWebSocket), the RTP packetizer (processUltravoxAudio),   *)
(* the JSON relay (handleUltravoxJsonMessage) and the observer websocket   *)
(* handler (handleWebSocketConnection).                                    *)
(***************************************************************************)
EXTENDS Integers, Sequences, FiniteSets, Bags, TLC

(***************************************************************************)
(* Bounds of the model.                                                    *)
(***************************************************************************)
MaxPeers == 2
MaxSessions == 2
MaxTracks == 2
MaxObservers == 2
MaxFrames == 2
MaxPackets == 2
MaxBigFrames == 4
MaxRunFrames == 65540

Peers == 1..MaxPeers
Sessions == 1..MaxSessions
Tracks == 1..MaxTracks
Observers == 1..MaxObservers

(***************************************************************************)
(* Program constants.                                                      *)
(***************************************************************************)
Uint16 == 65536
SSRC == 12345
RTPVersion == 2
PayloadTypePCMU == 0

(***************************************************************************)
(* Frames of the voice-session websocket.  A binary frame is a sequence of *)
(* bytes (little-endian 16-bit PCM); a text frame is the text itself.      *)
(***************************************************************************)
TextMessage == "TextMessage"
BinaryMessage == "BinaryMessage"

BinaryFrame(bytes) == [messageType |-> BinaryMessage, pcm |-> bytes, text |-> ""]
TextFrame(s) == [messageType |-> TextMessage, pcm |-> <<>>, text |-> s]

PcmEmpty == <<>>
PcmOdd == <<16, 39, 7>>
PcmTwo == <<0, 0, 255, 127>>
PcmFrames == {PcmEmpty, PcmOdd, PcmTwo}

TxtMalformed == "{not valid json"
TxtArray == "[1,2]"
TxtNoType == "{\"text\":\"hi\"}"
TxtNumType == "{\"type\":7}"
TxtPing == "{\"type\":\"ping\"}"
TxtFinal == "{\"type\":\"transcript\",\"role\":\"agent\",\"final\":true,\"text\":\"hello\"}"
TxtPartial == "{\"type\":\"transcript\",\"role\":\"agent\",\"final\":false,\"text\":\"hel\",\"delta\":\"hel\"}"
TxtBadFinal == "{\"type\":\"transcript\",\"final\":\"yes\"}"
TxtError == "{\"type\":\"error\",\"error\":\"boom\"}"
TxtState == "{\"type\":\"state\",\"state\":\"listening\"}"
TextMessages == {TxtMalformed, TxtArray, TxtNoType, TxtNumType, TxtPing, TxtFinal,
                 TxtPartial, TxtBadFinal, TxtError, TxtState}

(***************************************************************************)
(* encoding/json on the text frames above.  A JSON value is a record       *)
(* [k, s, b]: k is its kind, s its string and b its boolean content.       *)
(***************************************************************************)
JStr(x) == [k |-> "string", s |-> x, b |-> FALSE]
JBool(x) == [k |-> "bool", s |-> "", b |-> x]
JNum(x) == [k |-> "number", s |-> x, b |-> FALSE]

\* The document a text parses to: syntax error, a non-object, or an object
\* as the function from its member names to their values.
JsonParse(msg) ==
    CASE msg = TxtMalformed -> [syntax |-> FALSE, object |-> FALSE, members |-> <<>>]
      [] msg = TxtArray -> [syntax |-> TRUE, object |-> FALSE, members |-> <<>>]
      [] msg = TxtNoType -> [syntax |-> TRUE, object |-> TRUE,
                             members |-> [n \in {"text"} |-> JStr("hi")]]
      [] msg = TxtNumType -> [syntax |-> TRUE, object |-> TRUE,
                              members |-> [n \in {"type"} |-> JNum("7")]]
      [] msg = TxtPing -> [syntax |-> TRUE, object |-> TRUE,
                           members |-> [n \in {"type"} |-> JStr("ping")]]
      [] msg = TxtFinal -> [syntax |-> TRUE, object |-> TRUE,
                            members |-> [n \in {"type", "role", "final", "text"} |->
                                CASE n = "type" -> JStr("transcript")
                                  [] n = "role" -> JStr("agent")
                                  [] n = "final" -> JBool(TRUE)
                                  [] OTHER -> JStr("hello")]]
      [] msg = TxtPartial -> [syntax |-> TRUE, object |-> TRUE,
                              members |-> [n \in {"type", "role", "final", "text", "delta"} |->
                                CASE n = "type" -> JStr("transcript")
                                  [] n = "role" -> JStr("agent")
                                  [] n = "final" -> JBool(FALSE)
                                  [] OTHER -> JStr("hel")]]
      [] msg = TxtBadFinal -> [syntax |-> TRUE, object |-> TRUE,
                               members |-> [n \in {"type", "final"} |->
                                 IF n = "type" THEN JStr("transcript") ELSE JStr("yes")]]
      [] msg = TxtError -> [syntax |-> TRUE, object |-> TRUE,
                            members |-> [n \in {"type", "error"} |->
                              IF n = "type" THEN JStr("error") ELSE JStr("boom")]]
      [] msg = TxtState -> [syntax |-> TRUE, object |-> TRUE,
                            members |-> [n \in {"type", "state"} |->
                              IF n = "type" THEN JStr("state") ELSE JStr("listening")]]
      [] OTHER -> [syntax |-> FALSE, object |-> FALSE, members |-> <<>>]

\* json.Unmarshal(message, &event) with event a map[string]interface{}:
\* fails on a syntax error and on a document that is not an object.
UnmarshalMapErr(msg) == ~JsonParse(msg).syntax \/ ~JsonParse(msg).object

\* event["type"].(string): ok is false when the member is missing or no string.
EventTypeOk(msg) ==
    LET d == JsonParse(msg)
    IN "type" \in DOMAIN d.members /\ d.members["type"].k = "string"

EventType(msg) == IF EventTypeOk(msg) THEN JsonParse(msg).members["type"].s ELSE ""

\* json.Unmarshal into a struct: a member of the wrong kind is an error,
\* a missing member leaves the zero value.
FieldErr(msg, name, kind) ==
    LET d == JsonParse(msg)
    IN name \in DOMAIN d.members /\ d.members[name].k # kind

StringField(msg, name) ==
    LET d == JsonParse(msg)
    IN IF name \in DOMAIN d.members /\ d.members[name].k = "string"
       THEN d.members[name].s ELSE ""

BoolField(msg, name) ==
    LET d == JsonParse(msg)
    IN IF name \in DOMAIN d.members /\ d.members[name].k = "bool"
       THEN d.members[name].b ELSE FALSE

UnmarshalTranscriptErr(msg) ==
    \/ FieldErr(msg, "type", "string") \/ FieldErr(msg, "role", "string")
    \/ FieldErr(msg, "final", "bool") \/ FieldErr(msg, "text", "string")
    \/ FieldErr(msg, "delta", "string")

UnmarshalErrorErr(msg) == FieldErr(msg, "type", "string") \/ FieldErr(msg, "error", "string")

UnmarshalStateErr(msg) == FieldErr(msg, "type", "string") \/ FieldErr(msg, "state", "string")

(***************************************************************************)
(* The outbound packetizer, processUltravoxAudio.                          *)
(***************************************************************************)
\* int16(binary.LittleEndian.Uint16(pcmData[i*2:])), i counted from 1 here.
Sample(pcmData, i) ==
    LET u == pcmData[2 * i - 1] + 256 * pcmData[2 * i]
    IN IF u >= 32768 THEN u - 65536 ELSE u

\* g711.EncodeUlawFrame(frame int16) uint8: the sign, then the magnitude
\* clipped and biased, its segment and the four bits below the segment's top
\* bit, all bits inverted.  Every step is int16 arithmetic: -frame and the
\* sum with the bias keep sixteen bits (int16 below), and a shift to the
\* right keeps the sign.  The segment table holds the position of the highest
\* set bit of its index, 0 for the indices 0 and 1.
EncodeUlawFrame(sample) ==
    LET int16(n) == IF (n % Uint16) >= (Uint16 \div 2)
                    THEN (n % Uint16) - Uint16 ELSE n % Uint16
        ulawSegment(i) == IF i < 2 THEN 0 ELSE CHOOSE e \in 1..7 : i \div (2 ^ e) = 1
        sign == IF sample < 0 THEN 128 ELSE 0
        mag == IF sample < 0 THEN int16(-sample) ELSE sample
        biased == int16((IF mag > 32635 THEN 32635 ELSE mag) + 132)
        segment == ulawSegment((biased \div 128) % 256)
        mantissa == (biased \div (2 ^ (segment + 3))) % 16
    IN 255 - (sign + 16 * segment + mantissa)

\* A payload with a byte for a trailing odd byte of the frame as well.
MuLawDataPadded(pcmData) ==
    [i \in 1..((Len(pcmData) + 1) \div 2) |->
        IF 2 * i <= Len(pcmData) THEN EncodeUlawFrame(Sample(pcmData, i)) ELSE 255]

\* muLawData: one companded byte per whole 16-bit sample of the frame.
MuLawData(pcmData) ==
    [i \in 1..(Len(pcmData) \div 2) |-> EncodeUlawFrame(Sample(pcmData, i))]

\* A uint32 is kept as its two 16-bit halves <<high, low>>: the model checker's
\* integers are 32 bits wide and signed.
U32(n) == <<(n \div Uint16) % Uint16, n % Uint16>>

\* a + n on a uint32, for 0 <= n < 2^31.
Add32(a, n) ==
    LET low == a[2] + (n % Uint16)
        high == a[1] + (n \div Uint16) + (low \div Uint16)
    IN <<high % Uint16, low % Uint16>>

\* A packetizer that advances the timestamp by the frame's bytes.
TsIncrementInBytes(pcmLen) == pcmLen

\* tsIncrement := uint32(len(muLawData)), from the frame's length in bytes
\* (a length below 2^31 here, which the conversion leaves as it is).
TsIncrement(pcmLen) == pcmLen \div 2

\* *sequenceNumber++ on a uint16.
IncSequenceNumber(sequenceNumber) == (sequenceNumber + 1) % Uint16

\* *timestamp += tsIncrement on a uint32.
AddTimestamp(timestamp, pcmLen) == Add32(timestamp, TsIncrement(pcmLen))

\* A header whose stream identifier moves with the sequence number.
RtpHeaderMovingSsrc(sequenceNumber, timestamp, ssrc) ==
    [Version |-> RTPVersion, PayloadType |-> PayloadTypePCMU,
     SequenceNumber |-> sequenceNumber, Timestamp |-> timestamp,
     SSRC |-> ssrc + sequenceNumber]

\* The header of the packet built from the counters as they are on entry.
RtpHeader(sequenceNumber, timestamp, ssrc) ==
    [Version |-> RTPVersion, PayloadType |-> PayloadTypePCMU,
     SequenceNumber |-> sequenceNumber, Timestamp |-> timestamp, SSRC |-> ssrc]

\* A packetizer that stamps the packet after advancing the timestamp.
PacketizeStampAfter(pcmLen, sequenceNumber, timestamp, ssrc) ==
    [header |-> RtpHeader(sequenceNumber, AddTimestamp(timestamp, pcmLen), ssrc),
     sequenceNumber |-> IncSequenceNumber(sequenceNumber),
     timestamp |-> AddTimestamp(timestamp, pcmLen)]

\* processUltravoxAudio on a frame of pcmLen bytes, its payload left aside:
\* the packet's header and the counters after it.
Packetize(pcmLen, sequenceNumber, timestamp, ssrc) ==
    [header |-> RtpHeader(sequenceNumber, timestamp, ssrc),
     sequenceNumber |-> IncSequenceNumber(sequenceNumber),
     timestamp |-> AddTimestamp(timestamp, pcmLen)]

\* processUltravoxAudio up to the write: the packet and the counters after it.
ProcessUltravoxAudio(pcmData, sequenceNumber, timestamp, ssrc) ==
    LET c == Packetize(Len(pcmData), sequenceNumber, timestamp, ssrc)
    IN [packet |-> [Header |-> c.header, Payload |-> MuLawData(pcmData)],
        sequenceNumber |-> c.sequenceNumber,
        timestamp |-> c.timestamp]

NoPacket == [Header |-> RtpHeader(0, U32(0), 0), Payload |-> <<>>]

(***************************************************************************)
(* Log lines, by their format string and arguments.                        *)
(***************************************************************************)
LogLine(format, a, b) == [format |-> format, a |-> a, b |-> b]

\* A handler that logs every transcript, final or not.
ProcessEventLocallyAnyTranscript(message) ==
    LET eventType == EventType(message)
    IN CASE eventType = "transcript" ->
              IF UnmarshalTranscriptErr(message)
              THEN <<LogLine("Error parsing transcript event: %v", "", "")>>
              ELSE <<LogLine("Transcript [%s]: %s", StringField(message, "role"),
                             StringField(message, "text"))>>
         [] eventType = "error" ->
              IF UnmarshalErrorErr(message)
              THEN <<LogLine("Error parsing error event: %v", "", "")>>
              ELSE <<LogLine("Ultravox Error: %s", StringField(message, "error"), "")>>
         [] eventType = "state" ->
              IF UnmarshalStateErr(message)
              THEN <<LogLine("Error parsing state event: %v", "", "")>>
              ELSE <<LogLine("Ultravox State: %s", StringField(message, "state"), "")>>
         [] OTHER -> <<LogLine("Received unknown event type: %s", eventType, ""),
                       LogLine("%s", message, "")>>

\* The local handling of a typed event (the switch of handleUltravoxJsonMessage):
\* the lines it logs.
ProcessEventLocally(message) ==
    LET eventType == EventType(message)
    IN CASE eventType = "transcript" ->
              IF UnmarshalTranscriptErr(message)
              THEN <<LogLine("Error parsing transcript event: %v", "", "")>>
              ELSE IF BoolField(message, "final")
                   THEN <<LogLine("Transcript [%s]: %s", StringField(message, "role"),
                                  StringField(message, "text"))>>
                   ELSE <<>>
         [] eventType = "error" ->
              IF UnmarshalErrorErr(message)
              THEN <<LogLine("Error parsing error event: %v", "", "")>>
              ELSE <<LogLine("Ultravox Error: %s", StringField(message, "error"), "")>>
         [] eventType = "state" ->
              IF UnmarshalStateErr(message)
              THEN <<LogLine("Error parsing state event: %v", "", "")>>
              ELSE <<LogLine("Ultravox State: %s", StringField(message, "state"), "")>>
         [] OTHER -> <<LogLine("Received unknown event type: %s", eventType, ""),
                       LogLine("%s", message, "")>>

(***************************************************************************)
(* State.                                                                  *)
(***************************************************************************)
VARIABLES
    process,                   \* "running", "exited" (log.Fatalf) or "panicked"
    webrtcConn,                \* per SDP request: its outcome, ICE state, done channel
    iceCallback,               \* per peer connection: the state-change callback's position
    activeUltravoxConnection,  \* the registry slot: 0 (nil) or a session
    activeUltravoxLock,        \* the worker holding activeUltravoxLock
    lastSet,                   \* the argument of the last completed setActiveUltravoxConnection
    uvConn,                    \* per session: the fields of its UltravoxConnection
    uvLoop,                    \* per session: its voice worker's position and locals
    inbound,                   \* per remote track: its handleIncomingAudio worker
    observer,                  \* per observer: its handleWebSocketConnection worker
    trackOut,                  \* per peer connection: the writes to its audio track
    uvOut,                     \* per session: the writes to its voice websocket
    clientOut,                 \* per observer: the writes to its websocket
    uvIn,                      \* per session: the frames its read loop has read
    uvLog,                     \* per session: the lines its voice worker has logged
    pk,                        \* a long-running packetizer: counters and totals
    loopback,                  \* a payload decoded and its PCM packetized again
    roundTrip,                 \* a sample packetized and its payload decoded again
    client,                    \* an API client: its configuration and its last Call
    duration                   \* an UltravoxDuration written as JSON and read from JSON

bridgeVars == <<process, webrtcConn, iceCallback, activeUltravoxConnection,
                activeUltravoxLock, lastSet, uvConn, uvLoop, inbound, observer,
                trackOut, uvOut, clientOut, uvIn, uvLog>>
libVars == <<roundTrip, client, duration>>
vars == <<bridgeVars, pk, loopback, libVars>>

(***************************************************************************)
(* The API client of the package: Config, NewClient, the call options and  *)
(* Client.Call.  Of a CallRequest the model keeps the string and boolean   *)
(* members, the two durations (in whole seconds) and the template context. *)
(***************************************************************************)
DefaultAPIBaseURL == "https://api.ultravox.ai/api"
DefaultModel == "fixie-ai/ultravox"
DefaultVoice == "Mark"
DefaultSystemPrompt ==
    "You are a helpful AI assistant that provides clear and concise information."
FirstSpeakerAgent == "FIRST_SPEAKER_AGENT"
FirstSpeakerUser == "FIRST_SPEAKER_USER"
OutputMediumVoice == "MESSAGE_MEDIUM_VOICE"
OutputMediumText == "MESSAGE_MEDIUM_TEXT"
DefaultJoinTimeout == 30
DefaultMaxDuration == 10 * 60

\* A *TemplateContext: nil, the value the client was configured with, a
\* value allocated while a call's options are applied, or the value the
\* caller gave to WithTemplateContext.
NilContext == 0
ConfigContext == 1
CallContext == 2
CallerContext == 3
EmptyContext == [UserFirstname |-> "", LastCallTranscript |-> ""]

\* CallMedium{}: a pointer member is <<>> when nil and <<v>> when it points
\* to v; a struct without members is {}.
EmptyStruct == {}
ZeroCallMedium ==
    [WebRTC |-> <<>>, Twilio |-> <<>>, ServerWebSocket |-> <<>>, Telnyx |-> <<>>,
     Plivo |-> <<>>, Exotel |-> <<>>, SIP |-> <<>>]
WebSocketMedium(inputRate, outputRate) ==
    [InputSampleRate |-> inputRate, OutputSampleRate |-> outputRate, ClientBufferSizeMs |-> 0]
ZeroSIPMedium == [Incoming |-> <<>>, Outgoing |-> <<>>]
DefaultInputSampleRate == 8000
DefaultOutputSampleRate == 8000

\* The zero CallRequest.
ZeroRequest ==
    [SystemPrompt |-> "", Model |-> "", Voice |-> "", LanguageHint |-> "",
     JoinTimeout |-> 0, MaxDuration |-> 0, RecordingEnabled |-> FALSE,
     FirstSpeaker |-> "", InitialOutputMedium |-> "", PriorCallId |-> "",
     EnableGreetingPrompt |-> FALSE, AgentID |-> "", TemplateContext |-> NilContext,
     Medium |-> <<>>]

\* config as NewClient sets it before the options; ULTRAVOX_API_KEY is unset.
DefaultConfig ==
    [APIKey |-> "", APIBaseURL |-> DefaultAPIBaseURL,
     CallRequest |-> [ZeroRequest EXCEPT
         !.Model = DefaultModel, !.Voice = DefaultVoice,
         !.FirstSpeaker = FirstSpeakerAgent, !.SystemPrompt = DefaultSystemPrompt,
         !.JoinTimeout = DefaultJoinTimeout, !.MaxDuration = DefaultMaxDuration,
         !.InitialOutputMedium = OutputMediumVoice, !.RecordingEnabled = FALSE,
         !.Medium = <<[ZeroCallMedium EXCEPT !.ServerWebSocket =
                          <<WebSocketMedium(DefaultInputSampleRate,
                                            DefaultOutputSampleRate)>>]>>]]

NoCall == [nil |-> TRUE, CallID |-> "", JoinURL |-> ""]
NoRequest == [sent |-> FALSE, url |-> <<>>, apiKey |-> "", members |-> {},
              body |-> ZeroRequest, context |-> EmptyContext]
NoResponse == [err |-> FALSE, StatusCode |-> 0, Body |-> ""]
NoClient == [made |-> FALSE, config |-> DefaultConfig, context |-> EmptyContext,
             original |-> DefaultConfig, originalContext |-> EmptyContext,
             calls |-> 0, opts |-> <<>>, response |-> NoResponse,
             request |-> NoRequest, call |-> NoCall, err |-> "",
             method |-> "", agentID |-> "", pending |-> FALSE]

(***************************************************************************)
(* Arithmetic for the durations.  An int64 and the 53-bit mantissa of a     *)
(* float64 are beyond the 32-bit integers of the model: a natural number   *)
(* of any size is the sequence of its limbs in base 10^4, the least        *)
(* significant first, with no zero limb at the top; zero is <<>>.          *)
(***************************************************************************)
\* The one element of a set: The({e : x \in {v}}) is e with x standing for
\* v, and v is worked out once.
The(S) == CHOOSE r \in S : TRUE

LimbBase == 10 ^ 4
LimbDigits == 4

\* The sum of a sequence of natural numbers: the size of the bag that holds
\* i as many times as f[i] + 1, less its length.
Sum(f0) == The({BagCardinality([i \in 1..Len(f) |-> f[i] + 1]) - Len(f) : f \in {f0}})

\* The sequence f with every element evaluated.
Listed(f) == f \o <<>>

NatTrim(a0) ==
    The({
      IF a = <<>> \/ a[Len(a)] # 0 THEN a
      ELSE SubSeq(a, 1, Len(a) - Cardinality({i \in 1..Len(a) :
                                                 \A j \in i..Len(a) : a[j] = 0}))
      : a \in {Listed(a0)}})

\* A number below 2^31 as a natural number of any size.
NatOf(n0) ==
    The({
      NatTrim(<<n % LimbBase, (n \div LimbBase) % LimbBase, n \div (LimbBase * LimbBase)>>)
      : n \in {n0}})

\* The limb of a at place i, zero above the top.
Limb(a, i) == IF i >= 1 /\ i <= Len(a) THEN a[i] ELSE 0

\* a * 10^(4 n)
NatShift(a0, n) == The({IF a = <<>> THEN a ELSE [i \in 1..n |-> 0] \o a : a \in {a0}})

\* -1, 0 or 1 as a is below, equal to or above b.
NatCmp(a0, b0) ==
    The({
      IF Len(a) < Len(b) THEN -1
      ELSE IF Len(a) > Len(b) THEN 1
      ELSE IF a = b THEN 0
      ELSE The({
             IF a[top] < b[top] THEN -1 ELSE 1
        : top \in {CHOOSE i \in 1..Len(a) :
                    a[i] # b[i] /\ \A j \in (i + 1)..Len(a) : a[j] = b[j]}})
      : a \in {a0}, b \in {b0}})

\* The place at or below i that decides the carry out of place i: the
\* highest one whose sum is not LimbBase - 1 (whose difference is not 0),
\* or 0.
Deciding(s, i, neutral) ==
    CHOOSE j \in 0..i : (j = 0 \/ s[j] # neutral) /\ \A l \in (j + 1)..i : s[l] = neutral

\* The carry out of place i of an addition with the limb sums s.
CarryOut(s, i) ==
    IF i = 0 THEN 0
    ELSE IF s[i] >= LimbBase THEN 1
    ELSE IF s[i] < LimbBase - 1 THEN 0
    ELSE The({
           IF j > 0 /\ s[j] >= LimbBase THEN 1 ELSE 0
      : j \in {Deciding(s, i, LimbBase - 1)}})

NatAdd(a0, b0) ==
    The({
      The({
        NatTrim([i \in 1..Len(s) |-> (s[i] + CarryOut(s, i - 1)) % LimbBase])
        : s \in {Listed([i \in 1..((IF Len(a) > Len(b) THEN Len(a) ELSE Len(b)) + 1) |->
                      Limb(a, i) + Limb(b, i)])}})
      : a \in {a0}, b \in {b0}})

\* The borrow out of place i of a subtraction with the limb differences d.
BorrowOut(d, i) ==
    IF i = 0 THEN 0
    ELSE IF d[i] < 0 THEN 1
    ELSE IF d[i] > 0 THEN 0
    ELSE The({IF j > 0 /\ d[j] < 0 THEN 1 ELSE 0 : j \in {Deciding(d, i, 0)}})

\* a - b for a >= b.
NatSub(a0, b0) ==
    The({
      The({
        NatTrim([i \in 1..Len(d) |-> (d[i] - BorrowOut(d, i - 1)) % LimbBase])
        : d \in {Listed([i \in 1..Len(a) |-> a[i] - Limb(b, i)])}})
      : a \in {a0}, b \in {b0}})

\* The natural number with the limb w[i] at place i, every w[i] below 2^31.
NatCarry(w0) ==
    The({
      NatAdd(NatAdd(NatTrim([i \in 1..Len(w) |-> w[i] % LimbBase]),
                    NatTrim([i \in 1..(Len(w) + 1) |->
                               IF i = 1 THEN 0 ELSE (w[i - 1] \div LimbBase) % LimbBase])),
             NatTrim([i \in 1..(Len(w) + 2) |->
                        IF i <= 2 THEN 0 ELSE w[i - 2] \div (LimbBase * LimbBase)]))
      : w \in {Listed(w0)}})

\* a * b: the products of the limbs, their low and their high halves added
\* up place by place.
NatMul(a0, b0) ==
    The({
      IF a = <<>> \/ b = <<>> THEN <<>>
      ELSE NatCarry([i \in 1..(Len(a) + Len(b)) |->
               Sum([j \in 1..Len(a) |->
                      ((Limb(a, j) * Limb(b, i - j + 1)) % LimbBase)
                    + ((Limb(a, j) * Limb(b, i - j)) \div LimbBase)])])
      : a \in {a0}, b \in {b0}})

\* base^n for a base up to 16.
RECURSIVE NatPow(_, _)
NatPow(base0, n0) ==
    The({
      IF n <= 3 THEN NatOf(base ^ n)
      ELSE The({
             NatMul(NatMul(half, half), NatOf(base ^ (n % 2)))
        : half \in {NatPow(base, n \div 2)}})
      : base \in {base0}, n \in {n0}})

\* a * base^n
NatMulPow(a, base, n) == NatMul(a, NatPow(base, n))

\* One step of the long division of p by q, the top limb of q at least half
\* of LimbBase: st is [p, q, i, rem, quo] with the limbs of p above place i
\* divided.  The limb of the quotient is at most two below the quotient of
\* the top limbs.
DivStep(st) ==
    The({
      The({
        The({
          The({
            [p |-> st.p, q |-> st.q, i |-> st.i - 1,
             rem |-> NatSub(r, NatMul(st.q, NatOf(d))), quo |-> <<d>> \o st.quo]
            : d \in {CHOOSE d \in {est - 2, est - 1, est} :
                   /\ d >= 0 /\ NatCmp(NatMul(st.q, NatOf(d)), r) <= 0
                   /\ d = est \/ NatCmp(NatMul(st.q, NatOf(d + 1)), r) > 0}})
          : est \in {IF guess > LimbBase - 1 THEN LimbBase - 1 ELSE guess}})
        : guess \in {(Limb(r, top + 1) * LimbBase + Limb(r, top)) \div st.q[top]}})
      : r \in {NatTrim(<<st.p[st.i]>> \o st.rem)}, top \in {Len(st.q)}})

RECURSIVE NatDivFrom(_)
NatDivFrom(st0) ==
    The({IF st.i = 0 THEN NatTrim(st.quo) ELSE NatDivFrom(DivStep(st)) : st \in {st0}})

\* The quotient and the remainder of p by q, q not zero, by long division
\* of both times what makes the top limb of q large.
NatDiv(p0, q0) ==
    The({
      IF NatCmp(p, q) < 0 THEN [quo |-> <<>>, rem |-> p]
      ELSE The({
             The({
               The({
                 [quo |-> quo, rem |-> NatSub(p, NatMul(q, quo))]
                 : quo \in {NatDivFrom([p |-> pf, q |-> qf, i |-> Len(pf) - Len(qf) + 1,
                                rem |-> SubSeq(pf, Len(pf) - Len(qf) + 2, Len(pf)),
                                quo |-> <<>>])}})
               : pf \in {NatMul(p, f)}, qf \in {NatMul(q, f)}})
        : f \in {NatOf(LimbBase \div (q[Len(q)] + 1))}})
      : p \in {p0}, q \in {q0}})

\* The decimal digits of a, most significant first; zero has none.
NatDigits(a0) ==
    The({
      IF a = <<>> THEN <<>>
      ELSE The({
             Listed([i \in 1..(LimbDigits * (Len(a) - 1) + top) |->
                 The({
                   (a[(place \div LimbDigits) + 1] \div (10 ^ (place % LimbDigits))) % 10
                   : place \in {LimbDigits * (Len(a) - 1) + top - i}})])
        : top \in {Cardinality({t \in 1..LimbDigits : a[Len(a)] >= 10 ^ (t - 1)})}})
      : a \in {a0}})

\* The natural number of a sequence of decimal digits.
NatFromDigits(ds0) ==
    The({
      NatTrim([j \in 1..((Len(ds) + LimbDigits - 1) \div LimbDigits) |->
                 The({
                     ds[last]
                   + (IF last > 1 THEN 10 * ds[last - 1] ELSE 0)
                   + (IF last > 2 THEN 100 * ds[last - 2] ELSE 0)
                   + (IF last > 3 THEN 1000 * ds[last - 3] ELSE 0)
                   : last \in {Len(ds) - LimbDigits * (j - 1)}})])
      : ds \in {ds0}})

(***************************************************************************)
(* float64.  A value is [class, neg, m, k]: of class "finite" it is the    *)
(* number m / 2^k with the sign neg, m a natural number below 2^53 that is *)
(* at least 2^52 unless k is MaxBinaryScale (a subnormal number) or m is   *)
(* zero; the other classes are "inf" and "nan".  An operation rounds its   *)
(* exact result to the nearest value, a tie to the even mantissa.          *)
(***************************************************************************)
MantissaBits == 53
MaxBinaryScale == 1074
MinBinaryScale == -971
TwoTo52 == NatPow(2, MantissaBits - 1)
TwoTo53 == NatPow(2, MantissaBits)
TwoTo63 == NatPow(2, 63)
TwoTo64 == NatPow(2, 64)

FloatZero(neg) == [class |-> "finite", neg |-> neg, m |-> <<>>, k |-> 0]
FloatInf(neg) == [class |-> "inf", neg |-> neg, m |-> <<>>, k |-> 0]
FloatNaN == [class |-> "nan", neg |-> FALSE, m |-> <<>>, k |-> 0]
IsZero(x) == x.class = "finite" /\ x.m = <<>>

NatZeros(n) == [i \in 1..n |-> 0]

\* n / 10^s cut at the decimal point: the integer part, and the digits of
\* the fraction.
Cut(n0, s0) ==
    The({
      IF s <= 0 THEN [int |-> NatMulPow(n, 10, -s), frac |-> <<>>]
      ELSE The({
             IF s >= Len(ds)
             THEN [int |-> <<>>, frac |-> NatZeros(s - Len(ds)) \o ds]
             ELSE [int |-> NatFromDigits(SubSeq(ds, 1, Len(ds) - s)),
                   frac |-> SubSeq(ds, Len(ds) - s + 1, Len(ds))]
        : ds \in {NatDigits(n)}})
      : n \in {n0}, s \in {s0}})

\* Whether a number with the odd or even integer part int and the fraction
\* digits frac rounds up.
RoundsUp(int, frac) ==
    /\ frac # <<>>
    /\ \/ frac[1] > 5
       \/ /\ frac[1] = 5
          /\ \/ \E i \in 2..Len(frac) : frac[i] # 0
             \/ (int # <<>> /\ int[1] % 2 = 1)

\* The value times 2^k being n / 10^s, st is [n, s, k, cut], cut being that
\* number cut at the point: k moved until the integer part has MantissaBits
\* bits, or k is MaxBinaryScale.
Moved(n, s, k) == [n |-> n, s |-> s, k |-> k, cut |-> Cut(n, s)]
RECURSIVE Normalised(_)
Normalised(st0) ==
    The({
      IF NatCmp(st.cut.int, TwoTo53) >= 0
      THEN Normalised(Moved(NatMul(st.n, NatOf(5)), st.s + 1, st.k - 1))
      ELSE IF NatCmp(st.cut.int, TwoTo52) < 0 /\ st.k < MaxBinaryScale
      THEN Normalised(Moved(NatMul(st.n, NatOf(2)), st.s, st.k + 1))
      ELSE [int |-> st.cut.int, frac |-> st.cut.frac, k |-> st.k]
      : st \in {st0}})

\* The number of decimal digits of a.
NatLen(a) ==
    IF a = <<>> THEN 0
    ELSE LimbDigits * (Len(a) - 1)
         + Cardinality({t \in 1..LimbDigits : a[Len(a)] >= 10 ^ (t - 1)})

\* An estimate of the binary exponent of n / (10^s * 2^b), n not zero, a
\* little below it or above it: log2(10) is 3.3219...
ExponentGuess(n, s, b) ==
    The({
      The({
        ((dc * 33219) \div 10000) - b
        : dc \in {IF d > 20000 THEN 20000 ELSE IF d < -20000 THEN -20000 ELSE d}})
      : d \in {NatLen(n) - s - 1}})

\* The float64 nearest to n / (10^s * 2^b), with the sign neg.
RoundFloat(neg, n0, s0, b0) ==
    The({
      IF n = <<>> THEN FloatZero(neg)
      ELSE The({
        IF guess > 1100 THEN FloatInf(neg)
        ELSE IF guess < -1200 THEN FloatZero(neg)
        ELSE The({
          The({
            The({
              IF m = <<>> THEN FloatZero(neg)
              ELSE IF m = TwoTo53
              THEN (IF r.k - 1 < MinBinaryScale THEN FloatInf(neg)
                    ELSE [class |-> "finite", neg |-> neg, m |-> TwoTo52, k |-> r.k - 1])
              ELSE IF r.k < MinBinaryScale THEN FloatInf(neg)
              ELSE [class |-> "finite", neg |-> neg, m |-> m, k |-> r.k]
              : m \in {IF RoundsUp(r.int, r.frac) THEN NatAdd(r.int, NatOf(1)) ELSE r.int}})
            : r \in {Normalised(IF k - b >= 0
                          THEN Moved(NatMulPow(n, 2, k - b), s, k)
                          ELSE Moved(NatMulPow(n, 5, b - k), s + b - k, k))}})
          : k \in {IF MantissaBits - 2 - guess > MaxBinaryScale
                  THEN MaxBinaryScale ELSE MantissaBits - 2 - guess}})
        : guess \in {ExponentGuess(n, s, b)}})
      : n \in {n0}, s \in {s0}, b \in {b0}})

\* float64(n) of an integer with the magnitude n.
FloatOfNat(n) == RoundFloat(FALSE, n, 0, 0)
FloatOfInt(neg, n) == RoundFloat(neg /\ n # <<>>, n, 0, 0)

\* x * y
Float64Mul(x0, y0) ==
    The({
      IF x.class = "nan" \/ y.class = "nan" THEN FloatNaN
      ELSE IF x.class = "inf" \/ y.class = "inf"
      THEN (IF IsZero(x) \/ IsZero(y) THEN FloatNaN ELSE FloatInf(x.neg # y.neg))
      ELSE RoundFloat(x.neg # y.neg, NatMul(x.m, y.m), 0, x.k + y.k)
      : x \in {x0}, y \in {y0}})

\* x / y: of two finite numbers the quotient of the mantissas, that of x
\* moved up to QuotientLimbs limbs and by QuotientBits bits first, and
\* whether the division left a remainder, rounded.
QuotientBits == 64
QuotientLimbs == 5

Float64Quo(x0, y0) ==
    The({
      IF x.class = "nan" \/ y.class = "nan" THEN FloatNaN
      ELSE IF x.class = "inf"
      THEN (IF y.class = "inf" THEN FloatNaN ELSE FloatInf(x.neg # y.neg))
      ELSE IF y.class = "inf" THEN FloatZero(x.neg # y.neg)
      ELSE IF IsZero(y) THEN (IF IsZero(x) THEN FloatNaN ELSE FloatInf(x.neg # y.neg))
      ELSE IF IsZero(x) THEN FloatZero(x.neg # y.neg)
      ELSE The({
             The({
               RoundFloat(x.neg # y.neg,
                          NatAdd(NatMul(q.quo, NatOf(2)),
                                 IF q.rem = <<>> THEN <<>> ELSE NatOf(1)),
                          LimbDigits * up, QuotientBits + 1 + x.k - y.k)
               : q \in {NatDiv(NatShift(NatMulPow(x.m, 2, QuotientBits), up), y.m)}})
        : up \in {QuotientLimbs - Len(x.m)}})
      : x \in {x0}, y \in {y0}})

\* x + y
Float64Add(x0, y0) ==
    The({
      IF x.class = "nan" \/ y.class = "nan" THEN FloatNaN
      ELSE IF x.class = "inf"
      THEN (IF y.class = "inf" /\ x.neg # y.neg THEN FloatNaN ELSE x)
      ELSE IF y.class = "inf" THEN y
      ELSE The({
        The({
          IF x.neg = y.neg THEN RoundFloat(x.neg, NatAdd(a, b), 0, k)
          ELSE IF NatCmp(a, b) = 0 THEN FloatZero(FALSE)
          ELSE IF NatCmp(a, b) > 0 THEN RoundFloat(x.neg, NatSub(a, b), 0, k)
          ELSE RoundFloat(y.neg, NatSub(b, a), 0, k)
          : a \in {NatMulPow(x.m, 2, k - x.k)}, b \in {NatMulPow(y.m, 2, k - y.k)}})
        : k \in {IF x.k > y.k THEN x.k ELSE y.k}})
      : x \in {x0}, y \in {y0}})

\* A finite x as a decimal: [n, s] with the magnitude n / 10^s.
Decimal(x0) ==
    The({
      IF x.k >= 0 THEN [n |-> NatMulPow(x.m, 5, x.k), s |-> x.k]
      ELSE [n |-> NatMulPow(x.m, 2, -x.k), s |-> 0]
      : x \in {x0}})

\* The magnitude of a finite x cut to an integer, and whether x is one.
FloatTrunc(x) == The({Cut(dec.n, dec.s).int : dec \in {Decimal(x)}})
FloatIsWhole(x) ==
    The({
      (\A i \in DOMAIN Cut(dec.n, dec.s).frac :
                                     Cut(dec.n, dec.s).frac[i] = 0)
      : dec \in {Decimal(x)}})

DigitChars == <<"0", "1", "2", "3", "4", "5", "6", "7", "8", "9">>
IsDigit(c) == \E n \in 1..10 : DigitChars[n] = c
DigitValue(c) == (CHOOSE n \in 1..10 : DigitChars[n] = c) - 1

\* The decimal digits of a natural number, and the number of a run of digits.
Itoa(n) ==
    LET len == 1 + Cardinality({k \in 1..9 : n >= 10 ^ k})
    IN [i \in 1..len |-> DigitChars[((n \div (10 ^ (len - i))) % 10) + 1]]

\* json.Marshal of a string none of whose characters needs an escape.
Quoted(text) == <<"\"">> \o text \o <<"\"">>

(***************************************************************************)
(* Formatting a float64 as fmt.Sprintf does.                               *)
(***************************************************************************)
\* The text of a sequence of digits.
DigitText(ds) == [i \in 1..Len(ds) |-> DigitChars[ds[i] + 1]]

\* ds without the zeros at its end.
TrimZeros(ds) ==
    SubSeq(ds, 1, Len(ds) - Cardinality({i \in 1..Len(ds) : \A j \in i..Len(ds) : ds[j] = 0}))

\* The numbers that round to the finite x, x not zero, as [lower, x, upper,
\* s, closed]: between lower / 10^s and upper / 10^s, the ends included when
\* the mantissa is even; the value below the least mantissa of an exponent
\* is half as far away.
Neighbours(x0) ==
    The({
      The({
        [lower |-> NatMul(NatSub(NatMul(x.m, NatOf(4)),
                                 NatOf(IF x.m = TwoTo52 /\ x.k < MaxBinaryScale THEN 1 ELSE 2)),
                          unit),
         x |-> NatMul(NatMul(x.m, NatOf(4)), unit),
         upper |-> NatMul(NatAdd(NatMul(x.m, NatOf(4)), NatOf(2)), unit),
         s |-> IF x.k + 2 >= 0 THEN x.k + 2 ELSE 0,
         closed |-> x.m[1] % 2 = 0]
        : unit \in {IF x.k + 2 >= 0 THEN NatPow(5, x.k + 2) ELSE NatPow(2, -(x.k + 2))}})
      : x \in {x0}})

\* The two numbers of n digits around nb.x, ds being the digits of nb.x.
Below(ds, n) == NatFromDigits(SubSeq(ds, 1, n) \o NatZeros(Len(ds) - n))
Above(ds, n) == NatAdd(Below(ds, n), NatPow(10, Len(ds) - n))
InReach(nb, c) ==
    IF nb.closed THEN NatCmp(nb.lower, c) <= 0 /\ NatCmp(c, nb.upper) <= 0
    ELSE NatCmp(nb.lower, c) < 0 /\ NatCmp(c, nb.upper) < 0
Reaches(nb, ds, n) == InReach(nb, Below(ds, n)) \/ InReach(nb, Above(ds, n))

\* The digits that a float64 can have at most and still be told apart.
MaxShortest == 17

\* The shortest decimal that rounds to the finite x, x not zero, the
\* nearest to x of that length: [digits, dp], 0.digits * 10^dp.
Shortest(x) ==
    The({
      The({
        The({
          The({
            The({
              [digits |-> TrimZeros(NatDigits(c)), dp |-> NatLen(c) - nb.s]
              : c \in {IF ~InReach(nb, hi) THEN lo
                 ELSE IF ~InReach(nb, lo) THEN hi
                 ELSE IF NatCmp(NatSub(nb.x, lo), NatSub(hi, nb.x)) <= 0 THEN lo
                 ELSE hi}})
            : lo \in {Below(ds, n)}, hi \in {Above(ds, n)}})
          : n \in {CHOOSE n \in 1..(IF Len(ds) < MaxShortest THEN Len(ds) ELSE MaxShortest) :
                 Reaches(nb, ds, n) /\ \A j \in 1..(n - 1) : ~Reaches(nb, ds, j)}})
        : ds \in {NatDigits(nb.x)}})
      : nb \in {Neighbours(x)}})

\* %e of the digits: d.ddde+XX
FormatE(digs) ==
    <<DigitChars[digs.digits[1] + 1]>>
    \o (IF Len(digs.digits) > 1 THEN <<".">> \o DigitText(Tail(digs.digits)) ELSE <<>>)
    \o <<"e", IF digs.dp - 1 < 0 THEN "-" ELSE "+">>
    \o The({
         (IF exp < 10 THEN <<"0">> ELSE <<>>) \o Itoa(exp)
      : exp \in {IF digs.dp - 1 < 0 THEN 1 - digs.dp ELSE digs.dp - 1}})

\* %f of the digits with every digit they have.
FormatF(digs) ==
    (IF digs.dp <= 0 THEN <<"0">>
     ELSE [i \in 1..digs.dp |-> IF i <= Len(digs.digits)
                                THEN DigitChars[digs.digits[i] + 1] ELSE "0"])
    \o (IF Len(digs.digits) > digs.dp
        THEN <<".">> \o [i \in 1..(Len(digs.digits) - digs.dp) |->
                           IF digs.dp + i >= 1 THEN DigitChars[digs.digits[digs.dp + i] + 1]
                           ELSE "0"]
        ELSE <<>>)

\* The precision %g decides by when it prints the shortest digits.
ShortestPrecision == 6

\* fmt.Sprintf("%g", x)
FormatG(x0) ==
    The({
      IF x.class = "nan" THEN <<"N", "a", "N">>
      ELSE IF x.class = "inf" THEN <<IF x.neg THEN "-" ELSE "+", "I", "n", "f">>
      ELSE (IF x.neg THEN <<"-">> ELSE <<>>)
           \o (IF IsZero(x) THEN <<"0">>
               ELSE The({
                      IF digs.dp - 1 < -4 \/ digs.dp - 1 >= ShortestPrecision
                      THEN FormatE(digs) ELSE FormatF(digs)
                 : digs \in {Shortest(x)}}))
      : x \in {x0}})

\* fmt.Sprintf("%.0f", x): the exact decimal of x rounded to an integer, a
\* tie to the even one.
FormatF0(x0) ==
    The({
      IF x.class = "nan" THEN <<"N", "a", "N">>
      ELSE IF x.class = "inf" THEN <<IF x.neg THEN "-" ELSE "+", "I", "n", "f">>
      ELSE (IF x.neg THEN <<"-">> ELSE <<>>)
           \o The({
                The({
                  The({
                    IF int = <<>> THEN <<"0">> ELSE DigitText(NatDigits(int))
                    : int \in {IF RoundsUp(c.int, c.frac) THEN NatAdd(c.int, NatOf(1)) ELSE c.int}})
                  : c \in {Cut(dec.n, dec.s)}})
             : dec \in {Decimal(x)}})
      : x \in {x0}})

(***************************************************************************)
(* UltravoxDuration and its JSON form.  A text is the sequence of its      *)
(* characters.  A duration is an int64 of nanoseconds, [neg, ns]: the sign *)
(* and the magnitude, a natural number in limbs; zero is not negative.     *)
(***************************************************************************)
NanosPerSecond == 10 ^ 9
Second == NatOf(NanosPerSecond)
ZeroDuration == [neg |-> FALSE, ns |-> <<>>]
MaxInt64 == [neg |-> FALSE, ns |-> NatSub(TwoTo63, NatOf(1))]
MinInt64 == [neg |-> TRUE, ns |-> TwoTo63]

\* The duration of sec seconds and nsec nanoseconds, and the one below zero.
Duration(sec, nsec) == [neg |-> FALSE, ns |-> NatAdd(NatMul(NatOf(sec), Second), NatOf(nsec))]
Negative(d) == [neg |-> d.ns # <<>>, ns |-> d.ns]

\* x == y of two float64.
Float64Eq(x, y) ==
    /\ x.class # "nan" /\ y.class # "nan"
    /\ \/ IsZero(x) /\ IsZero(y)
       \/ x = y

\* time.Duration.Seconds: the whole seconds plus the nanoseconds over 1e9,
\* each a float64.
Seconds(d0) ==
    The({
      The({
        Float64Add(FloatOfInt(d.neg, q.quo),
                   Float64Quo(FloatOfInt(d.neg, q.rem), FloatOfNat(Second)))
        : q \in {NatDiv(d.ns, Second)}})
      : d \in {d0}})

\* formatDuration: %.0fs of the seconds when they are what int64(seconds) is
\* as a float64 again, %gs otherwise.  The seconds of an int64 of
\* nanoseconds are inside int64, where the conversion cuts the fraction.
formatDuration(d) ==
    The({
      IF Float64Eq(seconds, FloatOfInt(seconds.neg, FloatTrunc(seconds)))
      THEN FormatF0(seconds) \o <<"s">>
      ELSE FormatG(seconds) \o <<"s">>
      : seconds \in {Seconds(d)}})

MarshalJSON(d) == Quoted(formatDuration(d))

\* The architectures of a build.  The conversion of a float64 that int64
\* does not hold is left to the implementation: amd64 gives the least
\* int64; arm64 gives the nearest int64, and zero for a NaN.
Architectures == {"amd64", "arm64"}

\* int64(x)
Int64(x0, arch) ==
    The({
      IF x.class = "nan" THEN (IF arch = "amd64" THEN MinInt64 ELSE ZeroDuration)
      ELSE IF x.class = "inf" THEN (IF arch = "amd64" \/ x.neg THEN MinInt64 ELSE MaxInt64)
      ELSE The({
             IF NatCmp(n, TwoTo63) < 0 THEN [neg |-> x.neg /\ n # <<>>, ns |-> n]
             ELSE IF arch = "amd64" \/ x.neg THEN MinInt64
             ELSE MaxInt64
        : n \in {FloatTrunc(x)}})
      : x \in {x0}})

\* The leading digits of s, and its leading characters that are neither a
\* digit nor a point.
DigitSpan(s) == Cardinality({i \in 1..Len(s) : \A j \in 1..i : IsDigit(s[j])})
UnitSpan(s) ==
    Cardinality({i \in 1..Len(s) : \A j \in 1..i : s[j] # "." /\ ~IsDigit(s[j])})

\* The natural number of a text of digits.
NatOfText(ds) == NatFromDigits([i \in 1..Len(ds) |-> DigitValue(ds[i])])

HexLetters == <<"a", "b", "c", "d", "e", "f">>
UpperLetters == <<"A", "B", "C", "D", "E", "F", "G", "H", "I", "J", "K", "L", "M",
                  "N", "O", "P", "Q", "R", "S", "T", "U", "V", "W", "X", "Y", "Z">>
LowerLetters == <<"a", "b", "c", "d", "e", "f", "g", "h", "i", "j", "k", "l", "m",
                  "n", "o", "p", "q", "r", "s", "t", "u", "v", "w", "x", "y", "z">>
ToLower(c) ==
    IF \E i \in 1..26 : UpperLetters[i] = c
    THEN LowerLetters[CHOOSE i \in 1..26 : UpperLetters[i] = c]
    ELSE c
Lowered(s) == [i \in 1..Len(s) |-> ToLower(s[i])]
IsHexLetter(c) == \E i \in 1..6 : HexLetters[i] = ToLower(c)
IsHexDigit(c) == IsDigit(c) \/ IsHexLetter(c)
HexValue(c) ==
    IF IsDigit(c) THEN DigitValue(c) ELSE 9 + CHOOSE i \in 1..6 : HexLetters[i] = ToLower(c)

\* The natural number of a text of hexadecimal digits.
RECURSIVE NatOfHex(_)
NatOfHex(hs0) ==
    The({
      IF Len(hs) = 0 THEN <<>>
      ELSE IF Len(hs) = 1 THEN NatOf(HexValue(hs[1]))
      ELSE The({
             NatAdd(NatMulPow(NatOfHex(SubSeq(hs, 1, Len(hs) - half)), 16, half),
                    NatOfHex(SubSeq(hs, Len(hs) - half + 1, Len(hs))))
        : half \in {Len(hs) \div 2}})
      : hs \in {hs0}})

\* The units of time.ParseDuration in nanoseconds.
UnitOf(u) ==
    CASE u = <<"n", "s">> -> [ok |-> TRUE, nanos |-> NatOf(1)]
      [] u = <<"u", "s">> -> [ok |-> TRUE, nanos |-> NatOf(10 ^ 3)]
      [] u = <<"µ", "s">> -> [ok |-> TRUE, nanos |-> NatOf(10 ^ 3)]
      [] u = <<"μ", "s">> -> [ok |-> TRUE, nanos |-> NatOf(10 ^ 3)]
      [] u = <<"m", "s">> -> [ok |-> TRUE, nanos |-> NatOf(10 ^ 6)]
      [] u = <<"s">> -> [ok |-> TRUE, nanos |-> Second]
      [] u = <<"m">> -> [ok |-> TRUE, nanos |-> NatMul(NatOf(60), Second)]
      [] u = <<"h">> -> [ok |-> TRUE, nanos |-> NatMul(NatOf(3600), Second)]
      [] OTHER -> [ok |-> FALSE, nanos |-> <<>>]

DurationError == [err |-> TRUE, d |-> ZeroDuration]

\* leadingFraction: the digits of the fraction it takes in, those whose
\* number is at most 2^63; the digits after them are passed over.
FractionDigits(ds0) ==
    The({
      The({
        IF Len(ds) <= zeros + 18 THEN Len(ds)
        ELSE IF NatCmp(NatOfText(SubSeq(ds, 1, zeros + 19)), TwoTo63) <= 0 THEN zeros + 19
        ELSE zeros + 18
        : zeros \in {Cardinality({i \in 1..Len(ds) : \A j \in 1..i : ds[j] = "0"})}})
      : ds \in {ds0}})

\* The power of ten above which ten times a float64 is rounded, and the
\* digits of a fraction beyond which it is below a nanosecond of an hour.
MaxExactScale == 22
MaxScale == 31

\* leadingFraction's scale: 1 multiplied by 10 once for each digit.
RECURSIVE ScaleOf(_)
ScaleOf(n) ==
    IF n <= MaxExactScale THEN FloatOfNat(NatPow(10, n))
    ELSE Float64Mul(ScaleOf(n - 1), FloatOfNat(NatOf(10)))

\* uint64(float64(f) * (float64(unit) / scale)) of the fraction f with n
\* digits.
FractionNanos(f, n, unit) ==
    IF f = <<>> \/ n > MaxScale THEN <<>>
    ELSE FloatTrunc(Float64Mul(FloatOfNat(f), Float64Quo(FloatOfNat(unit), ScaleOf(n))))

\* One number, fraction and unit at the head of s: its nanoseconds and the
\* rest of s.  v > 1<<63/unit is v * unit > 1<<63.
Component(s0) ==
    The({
      The({
        The({
          The({
            The({
              The({
                IF \/ NatCmp(v, TwoTo63) > 0
                   \/ (pl = 0 /\ fl <= 0)
                   \/ ul = 0
                   \/ ~unit.ok
                   \/ NatCmp(NatMul(v, unit.nanos), TwoTo63) > 0
                THEN [err |-> TRUE, v |-> <<>>, rest |-> <<>>]
                ELSE The({
                       [err |-> NatCmp(total, TwoTo63) > 0, v |-> total,
                        rest |-> SubSeq(rest, ul + 1, Len(rest))]
                  : total \in {NatAdd(NatMul(v, unit.nanos),
                                 FractionNanos(NatOfText(SubSeq(s, pl + 2, pl + 1 + n)),
                                               n, unit.nanos))}})
                : v \in {NatOfText(SubSeq(s, 1, pl))},
                  n \in {IF fl > 0 THEN FractionDigits(SubSeq(s, pl + 2, pl + 1 + fl)) ELSE 0},
                  unit \in {UnitOf(SubSeq(rest, 1, ul))}})
              : ul \in {UnitSpan(rest)}})
            : rest \in {SubSeq(s, pl + fl + 2, Len(s))}})
          : fl \in {IF pl < Len(s) /\ s[pl + 1] = "."
             THEN DigitSpan(SubSeq(s, pl + 2, Len(s))) ELSE -1}})
        : pl \in {DigitSpan(s)}})
      : s \in {s0}})

\* The loop of time.ParseDuration over the components of text, d the uint64
\* of nanoseconds so far.
RECURSIVE ParseComponents(_, _)
ParseComponents(text, d) ==
    IF text = <<>> THEN [err |-> FALSE, d |-> d]
    ELSE The({
           IF c.err THEN [err |-> TRUE, d |-> <<>>]
           ELSE The({
                  The({
                    IF NatCmp(wrapped, TwoTo63) > 0 THEN [err |-> TRUE, d |-> <<>>]
                    ELSE ParseComponents(c.rest, wrapped)
                    : wrapped \in {IF NatCmp(sum, TwoTo64) >= 0
                                   THEN NatSub(sum, TwoTo64) ELSE sum}})
             : sum \in {NatAdd(d, c.v)}})
      : c \in {Component(text)}})

\* time.ParseDuration.
ParseDuration(text) ==
    The({
      The({
        The({
          IF body = <<"0">> THEN [err |-> FALSE, d |-> ZeroDuration]
          ELSE IF body = <<>> THEN DurationError
          ELSE The({
                 IF r.err THEN DurationError
                 ELSE IF neg THEN [err |-> FALSE, d |-> Negative([neg |-> FALSE, ns |-> r.d])]
                 ELSE IF NatCmp(r.d, TwoTo63) >= 0 THEN DurationError
                 ELSE [err |-> FALSE, d |-> [neg |-> FALSE, ns |-> r.d]]
            : r \in {ParseComponents(body, <<>>)}})
          : body \in {IF s # <<>> /\ s[1] \in {"-", "+"} THEN Tail(s) ELSE s}})
        : neg \in {s # <<>> /\ s[1] = "-"}})
      : s \in {text}})

FloatError == [err |-> TRUE, f |-> FloatZero(FALSE)]

\* The exponent a text of digits gives: a digit is taken in while the
\* exponent is below MaxExponent.
MaxExponent == 10000
ExponentOf(ds) ==
    The({
      The({
        Sum([i \in 1..Len(taken) |-> DigitValue(taken[i]) * (10 ^ (Len(taken) - i))])
        : taken \in {SubSeq(ds, zeros + 1, IF Len(ds) < zeros + 5 THEN Len(ds) ELSE zeros + 5)}})
      : zeros \in {Cardinality({i \in 1..Len(ds) : \A j \in 1..i : ds[j] = "0"})}})

\* underscoreOK: an underscore stands between two digits, or between the
\* base prefix and a digit.
UnderscoreOK(s, hex) ==
    The({
      (
      \A i \in 1..Len(t) :
         t[i] = "_" =>
            /\ i < Len(t)
            /\ IsDigit(t[i + 1]) \/ (hex /\ IsHexLetter(t[i + 1]))
            /\ \/ (hex /\ i = 3)
               \/ /\ i > (IF hex THEN 3 ELSE 1)
                  /\ IsDigit(t[i - 1]) \/ (hex /\ IsHexLetter(t[i - 1])))
      : t \in {IF s # <<>> /\ s[1] \in {"-", "+"} THEN Tail(s) ELSE s}})

\* readFloat on the whole of s: sign, base prefix, mantissa and exponent, as
\* [ok, neg, hex, digits, places, exp]: the mantissa's digits without the
\* point, the number of them behind it, and the exponent.
ReadFloat(s0) ==
    The({
      The({
        The({
          The({
            The({
              The({
                The({
                  (
                  IF \/ Cardinality(points) > 1
                     \/ digits = <<>>
                     \/ (rest = <<>> /\ hex)
                     \/ (rest # <<>> /\ (exp = <<>> \/ ~IsDigit(exp[1])))
                     \/ \E i \in 1..Len(exp) : exp[i] # "_" /\ ~IsDigit(exp[i])
                     \/ ~UnderscoreOK(s, hex)
                  THEN [ok |-> FALSE, neg |-> FALSE, hex |-> FALSE, digits |-> <<>>,
                        places |-> 0, exp |-> 0]
                  ELSE [ok |-> TRUE, neg |-> s[1] = "-", hex |-> hex, digits |-> digits,
                        places |-> Cardinality({i \in 1..span :
                                      u[i] # "_" /\ \E p \in points : p < i}),
                        exp |-> (IF rest # <<>> /\ Len(rest) > 1 /\ rest[2] = "-"
                                 THEN -1 ELSE 1)
                                * ExponentOf(SelectSeq(exp, IsDigit))])
                  : exp \in {IF rest # <<>> /\ ToLower(rest[1]) = (IF hex THEN "p" ELSE "e")
                     THEN (IF Len(rest) > 1 /\ rest[2] \in {"-", "+"}
                           THEN SubSeq(rest, 3, Len(rest)) ELSE Tail(rest))
                     ELSE <<>>}})
                : digits \in {SelectSeq(SubSeq(u, 1, span), LAMBDA c : c \notin {"_", "."})},
                  points \in {{i \in 1..span : u[i] = "."}},
                  rest \in {SubSeq(u, span + 1, Len(u))}})
              : span \in {Cardinality({i \in 1..Len(u) : \A j \in 1..i :
                                 \/ u[j] \in {"_", "."} \/ IsDigit(u[j])
                                 \/ (hex /\ IsHexLetter(u[j]))})}})
            : u \in {IF hex THEN SubSeq(t, 3, Len(t)) ELSE t}})
          : hex \in {Len(t) > 2 /\ t[1] = "0" /\ ToLower(t[2]) = "x"}})
        : t \in {IF s # <<>> /\ s[1] \in {"-", "+"} THEN Tail(s) ELSE s}})
      : s \in {s0}})

\* strconv.ParseFloat(text, 64): an infinity or a NaN by name, or the
\* float64 nearest to the number read; a number too large is an error.
ParseFloat(text) ==
    The({
      The({
        IF name \in {<<"i", "n", "f">>, <<"i", "n", "f", "i", "n", "i", "t", "y">>}
        THEN [err |-> FALSE, f |-> FloatInf(s[1] = "-")]
        ELSE IF Lowered(s) = <<"n", "a", "n">> THEN [err |-> FALSE, f |-> FloatNaN]
        ELSE The({
               IF ~r.ok THEN FloatError
               ELSE The({
                      IF f.class = "inf" THEN FloatError ELSE [err |-> FALSE, f |-> f]
                 : f \in {IF r.hex
                         THEN RoundFloat(r.neg, NatOfHex(r.digits), 0, 4 * r.places - r.exp)
                         ELSE RoundFloat(r.neg, NatOfText(r.digits), r.places - r.exp, 0)}})
          : r \in {ReadFloat(s)}})
        : name \in {Lowered(IF s # <<>> /\ s[1] \in {"-", "+"} THEN Tail(s) ELSE s)}})
      : s \in {text}})

\* time.Duration(seconds * float64(time.Second))
OfSeconds(seconds, arch) == Int64(Float64Mul(seconds, FloatOfNat(Second)), arch)

\* parseDuration: a duration string first, a numeric string of seconds next.
parseDuration(s, arch) ==
    The({
      IF ~r.err THEN r
      ELSE The({
             IF ~seconds.err THEN [err |-> FALSE, d |-> OfSeconds(seconds.f, arch)]
             ELSE DurationError
        : seconds \in {ParseFloat(s)}})
      : r \in {ParseDuration(s)}})

(***************************************************************************)
(* encoding/json on the value a duration is read from.                     *)
(***************************************************************************)
Whitespace == {" ", "\t", "\r", "\n"}
ControlChars == {"\t", "\r", "\n", "\f"}

\* data without the white space around the value.
Trimmed(data) ==
    The({
      SubSeq(data, lead + 1, Len(data) - trail)
      : lead \in {Cardinality({i \in 1..Len(data) :
                                  \A j \in 1..i : data[j] \in Whitespace})},
        trail \in {Cardinality({i \in 1..Len(data) :
                                   \A j \in i..Len(data) : data[j] \in Whitespace})}})

\* Whether t is a JSON number: -, 0 or digits without a leading zero, a
\* point and digits, an exponent.
IsNumber(t0) ==
    The({
      The({
        The({
          The({
            The({
              (
              /\ il >= 1
              /\ il = 1 \/ a[1] # "0"
              /\ fl # 0
              /\ \/ rest = <<>>
                 \/ /\ rest[1] \in {"e", "E"}
                    /\ The({
                         exp # <<>> /\ DigitSpan(exp) = Len(exp)
                      : exp \in {IF Len(rest) > 1 /\ rest[2] \in {"-", "+"}
                            THEN SubSeq(rest, 3, Len(rest)) ELSE Tail(rest)}}))
              : rest \in {SubSeq(a, il + fl + 2, Len(a))}})
            : fl \in {IF il < Len(a) /\ a[il + 1] = "."
               THEN DigitSpan(SubSeq(a, il + 2, Len(a))) ELSE -1}})
          : il \in {DigitSpan(a)}})
        : a \in {IF t # <<>> /\ t[1] = "-" THEN Tail(t) ELSE t}})
      : t \in {t0}})

\* The character that stands for every one that no duration is written
\* with, and the printable characters of ASCII from the space on, the
\* backquote among the former.
OtherRune == "�"
Ascii ==
    <<" ", "!", "\"", "#", "$", "%", "&", "'", "(", ")", "*", "+", ",", "-", ".", "/",
      "0", "1", "2", "3", "4", "5", "6", "7", "8", "9", ":", ";", "<", "=", ">", "?",
      "@", "A", "B", "C", "D", "E", "F", "G", "H", "I", "J", "K", "L", "M", "N", "O",
      "P", "Q", "R", "S", "T", "U", "V", "W", "X", "Y", "Z", "[", "\\", "]", "^", "_",
      OtherRune, "a", "b", "c", "d", "e", "f", "g", "h", "i", "j", "k", "l", "m", "n", "o",
      "p", "q", "r", "s", "t", "u", "v", "w", "x", "y", "z", "{", "|", "}", "~">>

\* The character of a code point below 2^16.
Rune(code) ==
    IF code >= 32 /\ code <= 126 THEN Ascii[code - 31]
    ELSE IF code = 181 THEN "µ"
    ELSE IF code = 956 THEN "μ"
    ELSE IF code = 9 THEN "\t"
    ELSE IF code = 10 THEN "\n"
    ELSE IF code = 12 THEN "\f"
    ELSE IF code = 13 THEN "\r"
    ELSE OtherRune

\* getu4: the number of the escape \uXXXX that starts at place i of b, -1
\* when no such escape starts there.
Getu4(b, i) ==
    IF /\ i >= 1 /\ i + 5 <= Len(b) /\ b[i] = "\\" /\ b[i + 1] = "u"
       /\ \A j \in 2..5 : IsHexDigit(b[i + j])
    THEN 4096 * HexValue(b[i + 2]) + 256 * HexValue(b[i + 3])
         + 16 * HexValue(b[i + 4]) + HexValue(b[i + 5])
    ELSE -1

\* The backslashes right before place i of b; the places where an escape
\* starts; the character an escape stands for.
Backslashes(b, i) == Cardinality({j \in 1..(i - 1) : \A l \in j..(i - 1) : b[l] = "\\"})
Escapes(b, i) == b[i] = "\\" /\ Backslashes(b, i) % 2 = 0
Covered(b, i) ==
    \/ i > 1 /\ Escapes(b, i - 1)
    \/ \E j \in 2..5 : i > j /\ Escapes(b, i - j) /\ b[i - j + 1] = "u"

\* utf16.DecodeRune gives a character for the escape at i - 6 and the one
\* at i together: the halves of a surrogate pair, the high one first.  The
\* pair is one character, beyond 2^16; a half without its other half is the
\* replacement character.
JoinedSurrogate(b, i) ==
    /\ Getu4(b, i) >= 56320 /\ Getu4(b, i) <= 57343
    /\ Getu4(b, i - 6) >= 55296 /\ Getu4(b, i - 6) <= 56319
    /\ Escapes(b, i - 6)

Unescaped(b, i) ==
    CASE b[i + 1] = "u" -> Rune(Getu4(b, i))
      [] b[i + 1] = "b" -> Rune(8)
      [] b[i + 1] = "f" -> "\f"
      [] b[i + 1] = "n" -> "\n"
      [] b[i + 1] = "r" -> "\r"
      [] b[i + 1] = "t" -> "\t"
      [] OTHER -> b[i + 1]

\* The string of a JSON string literal t, [ok, s].
Unquote(t0) ==
    The({
      IF Len(t) < 2 \/ t[1] # "\"" \/ t[Len(t)] # "\"" THEN [ok |-> FALSE, s |-> <<>>]
      ELSE The({
        The({
          The({
            (
            IF \/ \E i \in starts :
                    \/ i = Len(b)
                    \/ b[i + 1] \notin {"\"", "\\", "/", "b", "f", "n", "r", "t", "u"}
                    \/ /\ b[i + 1] = "u"
                       /\ (i + 5 > Len(b) \/ \E j \in 2..5 : ~IsHexDigit(b[i + j]))
               \/ \E i \in shown \ starts : b[i] = "\"" \/ b[i] \in ControlChars
            THEN [ok |-> FALSE, s |-> <<>>]
            ELSE [ok |-> TRUE,
                  s |-> [n \in 1..Cardinality(shown) |->
                           The({
                             IF i \in starts THEN Unescaped(b, i) ELSE b[i]
                             : i \in {CHOOSE i \in shown : Cardinality({j \in shown : j <= i}) = n}})]])
            : shown \in {{i \in 1..Len(b) :
                            /\ i \in starts \/ ~Covered(b, i)
                            /\ ~JoinedSurrogate(b, i)}}})
          : starts \in {{i \in 1..Len(b) : Escapes(b, i)}}})
        : b \in {SubSeq(t, 2, Len(t) - 1)}})
      : t \in {t0}})

\* UnmarshalJSON: a JSON number is seconds, a JSON string goes to
\* parseDuration, anything else is an error.
UnmarshalJSON(data, arch) ==
    The({
      IF t # <<>> /\ t[1] = "\""
      THEN The({
             IF v.ok THEN parseDuration(v.s, arch) ELSE DurationError
        : v \in {Unquote(t)}})
      ELSE IF IsNumber(t)
      THEN The({
             IF seconds.err THEN DurationError
             ELSE [err |-> FALSE, d |-> OfSeconds(seconds.f, arch)]
        : seconds \in {ParseFloat(t)}})
      ELSE DurationError
      : t \in {Trimmed(data)}})

NoDuration == [stage |-> "idle", d |-> ZeroDuration, json |-> <<>>, back |-> DurationError,
               n |-> <<>>, arch |-> "", number |-> DurationError,
               numeric |-> DurationError, seconds |-> DurationError]

NoHolder == <<"none", 0>>
IceWorker(p) == <<"ice", p>>
TrackWorker(t) == <<"track", t>>
ObserverWorker(o) == <<"observer", o>>

NilUvConn == [created |-> FALSE, audioTrack |-> 0, wsConn |-> "nil", wsLock |-> NoHolder,
              joinURL |-> "", ctx |-> "nil", clientWs |-> 0]
Undeclared32 == <<-1, -1>>
IdleLoop == [pc |-> "none", sequenceNumber |-> -1, timestamp |-> Undeclared32, ssrc |-> -1,
             message |-> "", clientWs |-> 0, packet |-> NoPacket]
IdleInbound == [pc |-> "none", mimeType |-> "", decoder |-> "none", reads |-> 0,
                pcmData |-> <<>>, activeUVConn |-> 0, log |-> <<>>,
                decoders |-> 0, instance |-> 0]
IdleObserver == [pc |-> "none", conn |-> "none"]

\* sequenceNumber := uint16(0); timestamp := uint32(0)
InitialSequenceNumber == 0
InitialTimestamp == U32(0)

Init ==
    /\ process = "running"
    /\ webrtcConn = [p \in Peers |-> [offer |-> "none", response |-> "none",
                                      ice |-> "new", done |-> "none"]]
    /\ iceCallback = [p \in Peers |-> [pc |-> "idle", uvConn |-> 0]]
    /\ activeUltravoxConnection = 0
    /\ activeUltravoxLock = NoHolder
    /\ lastSet = 0
    /\ uvConn = [s \in Sessions |-> NilUvConn]
    /\ uvLoop = [s \in Sessions |-> IdleLoop]
    /\ inbound = [t \in Tracks |-> IdleInbound]
    /\ observer = [o \in Observers |-> IdleObserver]
    /\ trackOut = [p \in Peers |-> <<>>]
    /\ uvOut = [s \in Sessions |-> <<>>]
    /\ clientOut = [o \in Observers |-> <<>>]
    /\ uvIn = [s \in Sessions |-> <<>>]
    /\ uvLog = [s \in Sessions |-> <<>>]
    /\ pk = [sequenceNumber |-> InitialSequenceNumber, timestamp |-> InitialTimestamp,
             frames |-> 0, samples |-> <<0, 0, 0>>, big |-> 0,
             header |-> NoPacket.Header, previous |-> NoPacket.Header]
    /\ loopback = [stage |-> "idle", rounds |-> 0, payload |-> <<>>, mimeType |-> "",
                   err |-> FALSE, pcmData |-> <<>>, packet |-> NoPacket,
                   before |-> [sequenceNumber |-> InitialSequenceNumber,
                               timestamp |-> InitialTimestamp],
                   sequenceNumber |-> InitialSequenceNumber,
                   timestamp |-> InitialTimestamp]
    /\ roundTrip = [stage |-> "idle", sample |-> 0, payload |-> <<>>, decoded |-> 0]
    /\ client = NoClient
    /\ duration = NoDuration

(***************************************************************************)
(* Negotiation: handleSDPOffer and setupWebRTC.                            *)
(***************************************************************************)
\* Where handleSDPOffer gets to before it answers or waits: the step that
\* failed, or the wait for the end of ICE gathering; and how it ends after
\* the wait: the answer written, or Encode failing.
OfferOutcomes == {"parse", "setup", "remote", "answer", "local", "gathering"}
ResponseOutcomes == {"encode", "ok"}

\* A handler that answers whenever the offer was parsed.
OfferResponseLenient(outcome) ==
    CASE outcome = "parse" -> "400"
      [] OTHER -> "answer"

\* The HTTP status handleSDPOffer answers with (200: the SDP answer).
OfferResponse(outcome) ==
    CASE outcome = "parse" -> "400"
      [] outcome = "ok" -> "answer"
      [] outcome = "gathering" -> "none"
      [] OTHER -> "500"

\* Whether setupWebRTC returned a connection (handlers installed, done made).
OfferCreatesPeer(outcome) == outcome \notin {"parse", "setup"}

\* Whether both descriptions were applied, so that the ICE agent runs.
IceStarted(outcome) == outcome \in {"gathering", "encode", "ok"}

handleSDPOffer(p, outcome) ==
    /\ process = "running"
    /\ webrtcConn[p].offer = "none"
    /\ \A q \in Peers : q < p => webrtcConn[q].offer # "none"
    /\ webrtcConn' = [webrtcConn EXCEPT ![p] =
            [offer |-> outcome, response |-> OfferResponse(outcome), ice |-> "new",
             done |-> IF OfferCreatesPeer(outcome) THEN "open" ELSE "none"]]
    /\ UNCHANGED <<process, iceCallback, activeUltravoxConnection, activeUltravoxLock,
                   lastSet, uvConn, uvLoop, inbound, observer, trackOut, uvOut,
                   clientOut, uvIn, uvLog, pk, loopback, libVars>>

\* <-gatherComplete has returned: the answer is encoded into the response,
\* or Encode fails and http.Error answers.
gatherComplete(p, outcome) ==
    /\ process = "running"
    /\ webrtcConn[p].offer = "gathering"
    /\ webrtcConn' = [webrtcConn EXCEPT ![p].offer = outcome,
                                        ![p].response = OfferResponse(outcome)]
    /\ UNCHANGED <<process, iceCallback, activeUltravoxConnection, activeUltravoxLock,
                   lastSet, uvConn, uvLoop, inbound, observer, trackOut, uvOut,
                   clientOut, uvIn, uvLog, pk, loopback, libVars>>

(***************************************************************************)
(* The registry: setActiveUltravoxConnection / findActiveUltravoxConnection.*)
(***************************************************************************)
\* A registry whose first writer wins.
setActiveKeepingFirst(slot, conn) == IF slot = 0 THEN conn ELSE slot

\* The slot after setActiveUltravoxConnection(conn), whatever it held.
setActiveUltravoxConnection(slot, conn) == conn

\* What findActiveUltravoxConnection returns for the slot.
findActiveUltravoxConnection(slot) == slot

(***************************************************************************)
(* The ICE connection-state callback of setupPeerConnectionHandlers.       *)
(***************************************************************************)
\* The state changes the transport can report after a given state.
IceNext(st) ==
    CASE st = "new" -> {"checking", "closed"}
      [] st = "checking" -> {"connected", "failed", "closed"}
      [] st = "connected" -> {"disconnected", "closed"}
      [] st = "disconnected" -> {"connected", "failed", "closed"}
      [] st = "failed" -> {"closed"}
      [] OTHER -> {}

IceTerminal == {"disconnected", "failed", "closed"}

NextSession == 1 + Cardinality({s \in Sessions : uvConn[s].created})

\* connectionState == Connected: a new UltravoxConnection on this peer's audio
\* track, then setActiveUltravoxConnection takes the registry lock.
IceConnected(p, s) ==
    /\ process = "running"
    /\ s = NextSession
    /\ IceStarted(webrtcConn[p].offer)
    /\ iceCallback[p].pc = "idle"
    /\ "connected" \in IceNext(webrtcConn[p].ice)
    /\ activeUltravoxLock = NoHolder
    /\ webrtcConn' = [webrtcConn EXCEPT ![p].ice = "connected"]
    /\ uvConn' = [uvConn EXCEPT ![s] = [NilUvConn EXCEPT !.created = TRUE, !.audioTrack = p]]
    /\ iceCallback' = [iceCallback EXCEPT ![p] = [pc |-> "set", uvConn |-> s]]
    /\ activeUltravoxLock' = IceWorker(p)
    /\ UNCHANGED <<process, activeUltravoxConnection, lastSet, uvLoop, inbound, observer,
                   trackOut, uvOut, clientOut, uvIn, uvLog, pk, loopback, libVars>>

\* The slot is assigned, the lock released, and the voice worker started
\* (go startUltravoxConnection).
IceSetActive(p) ==
    /\ process = "running"
    /\ iceCallback[p].pc = "set"
    /\ activeUltravoxLock = IceWorker(p)
    /\ activeUltravoxConnection' =
           setActiveUltravoxConnection(activeUltravoxConnection, iceCallback[p].uvConn)
    /\ lastSet' = iceCallback[p].uvConn
    /\ activeUltravoxLock' = NoHolder
    /\ uvLoop' = [uvLoop EXCEPT ![iceCallback[p].uvConn].pc = "call"]
    /\ iceCallback' = [iceCallback EXCEPT ![p] = [pc |-> "idle", uvConn |-> 0]]
    /\ UNCHANGED <<process, webrtcConn, uvConn, inbound, observer, trackOut, uvOut,
                   clientOut, uvIn, uvLog, pk, loopback, libVars>>

\* connectionState is Disconnected, Failed or Closed: close(done), which
\* panics on a channel that is closed already.
IceTerminated(p, st) ==
    /\ process = "running"
    /\ IceStarted(webrtcConn[p].offer)
    /\ iceCallback[p].pc = "idle"
    /\ st \in IceTerminal /\ st \in IceNext(webrtcConn[p].ice)
    /\ IF webrtcConn[p].done = "closed"
       THEN /\ process' = "panicked"
            /\ webrtcConn' = [webrtcConn EXCEPT ![p].ice = st]
       ELSE /\ process' = process
            /\ webrtcConn' = [webrtcConn EXCEPT ![p].ice = st, ![p].done = "closed"]
    /\ UNCHANGED <<iceCallback, activeUltravoxConnection, activeUltravoxLock, lastSet,
                   uvConn, uvLoop, inbound, observer, trackOut, uvOut, clientOut, uvIn,
                   uvLog, pk, loopback, libVars>>

\* Any other state (checking): the callback only logs.
IceChecking(p) ==
    /\ process = "running"
    /\ IceStarted(webrtcConn[p].offer)
    /\ iceCallback[p].pc = "idle"
    /\ "checking" \in IceNext(webrtcConn[p].ice)
    /\ webrtcConn' = [webrtcConn EXCEPT ![p].ice = "checking"]
    /\ UNCHANGED <<process, iceCallback, activeUltravoxConnection, activeUltravoxLock,
                   lastSet, uvConn, uvLoop, inbound, observer, trackOut, uvOut,
                   clientOut, uvIn, uvLog, pk, loopback, libVars>>

(***************************************************************************)
(* The voice worker: startUltravoxConnection and handleUltravoxWebSocket.  *)
(***************************************************************************)
Append2(log, lines) == log \o lines

\* The five lines of logCallInfo, with the values of the call as names.
logCallInfo ==
    <<LogLine("Call created successfully!", "", ""),
      LogLine("Call ID: %s", "callId", ""),
      LogLine("Join URL: %s", "joinUrl", ""),
      LogLine("Max Duration: %s", "maxDuration", ""),
      LogLine("Join Timeout: %s", "joinTimeout", "")>>

\* configureAndStartUltravoxCall returned: on an error log.Fatalf ends the
\* process; otherwise the call is logged, the context is created and the
\* join URL stored.
startUltravoxConnection(s, ok) ==
    /\ process = "running"
    /\ uvLoop[s].pc = "call"
    /\ IF ok
       THEN /\ uvConn' = [uvConn EXCEPT ![s].ctx = "active", ![s].joinURL = "joinUrl"]
            /\ uvLoop' = [uvLoop EXCEPT ![s].pc = "dial"]
            /\ uvLog' = [uvLog EXCEPT ![s] = Append2(@, logCallInfo)]
            /\ UNCHANGED process
       ELSE /\ process' = "exited"
            /\ uvLog' = [uvLog EXCEPT ![s] =
                   Append(@, LogLine("Failed to start Ultravox call: %v", "", ""))]
            /\ UNCHANGED <<uvConn, uvLoop>>
    /\ UNCHANGED <<webrtcConn, iceCallback, activeUltravoxConnection, activeUltravoxLock,
                   lastSet, inbound, observer, trackOut, uvOut, clientOut, uvIn, pk, loopback, libVars>>

\* The top of the read loop, select on uvConn.ctx.Done() with a default: a
\* context that is done makes the worker return (the deferred Close runs);
\* otherwise the worker blocks in ReadMessage, where "read" is.  The select
\* does not block, so it is taken with the step that leads to it.
LoopTopPc(s) == IF uvConn[s].ctx = "cancelled" THEN "closed" ELSE "read"
LoopTopConn(s) ==
    IF uvConn[s].ctx = "cancelled" THEN [uvConn EXCEPT ![s].wsConn = "closed"] ELSE uvConn

\* A loop whose counters go on from those of the session created before it.
DialInheriting(s, ok) ==
    /\ process = "running"
    /\ uvLoop[s].pc = "dial"
    /\ ok
    /\ uvConn' = [uvConn EXCEPT ![s].wsConn = "open"]
    /\ uvLoop' = [uvLoop EXCEPT
           ![s].pc = "read",
           ![s].sequenceNumber = IF s > 1 /\ uvLoop[s - 1].sequenceNumber >= 0
                                 THEN uvLoop[s - 1].sequenceNumber ELSE 0,
           ![s].timestamp = IF s > 1 /\ uvLoop[s - 1].sequenceNumber >= 0
                            THEN uvLoop[s - 1].timestamp ELSE U32(0),
           ![s].ssrc = SSRC]
    /\ UNCHANGED <<process, uvLog, webrtcConn, iceCallback, activeUltravoxConnection,
                   activeUltravoxLock, lastSet, inbound, observer, trackOut, uvOut,
                   clientOut, uvIn, pk, loopback, libVars>>

\* websocket.DefaultDialer.Dial returned: on an error log.Fatalf ends the
\* process; otherwise the connection is stored and the loop's counters declared.
Dial(s, ok) ==
    /\ process = "running"
    /\ uvLoop[s].pc = "dial"
    /\ IF ok
       THEN /\ uvConn' = [uvConn EXCEPT ![s].wsConn =
                               IF LoopTopPc(s) = "closed" THEN "closed" ELSE "open"]
            /\ uvLoop' = [uvLoop EXCEPT ![s].pc = LoopTopPc(s),
                                        ![s].sequenceNumber = InitialSequenceNumber,
                                        ![s].timestamp = InitialTimestamp,
                                        ![s].ssrc = SSRC]
            /\ UNCHANGED <<process, uvLog>>
       ELSE /\ process' = "exited"
            /\ uvLog' = [uvLog EXCEPT ![s] =
                   Append(@, LogLine("WebSocket connection error: %v", "", ""))]
            /\ UNCHANGED <<uvConn, uvLoop>>
    /\ UNCHANGED <<webrtcConn, iceCallback, activeUltravoxConnection, activeUltravoxLock,
                   lastSet, inbound, observer, trackOut, uvOut, clientOut, uvIn, pk, loopback, libVars>>

\* The number of frames the read loops of the sessions S have read.
FramesRead(S) ==
    LET F[n \in 0..MaxSessions] == IF n = 0 THEN 0
                                    ELSE F[n - 1] + (IF n \in S THEN Len(uvIn[n]) ELSE 0)
    IN F[MaxSessions]

\* The loop can take a frame: it is blocked in ReadMessage, which returns the
\* next frame whatever has become of the context since the select.
CanRead(s) ==
    /\ process = "running"
    /\ uvLoop[s].pc = "read"
    /\ FramesRead(Sessions) < MaxFrames

\* A loop that dials again after a read error.
ReadErrorRedial(s) ==
    /\ process = "running"
    /\ uvLoop[s].pc = "read"
    /\ uvLoop' = [uvLoop EXCEPT ![s].pc = "dial"]
    /\ uvConn' = [uvConn EXCEPT ![s].wsConn = "closed"]
    /\ uvLog' = [uvLog EXCEPT ![s] = Append(@, LogLine("WebSocket read error: %v", "", ""))]
    /\ UNCHANGED <<process, webrtcConn, iceCallback, activeUltravoxConnection,
                   activeUltravoxLock, lastSet, inbound, observer, trackOut, uvOut,
                   clientOut, uvIn, pk, loopback, libVars>>

\* A read error that takes the inbound media loops down with the voice loop.
ReadErrorStopsMedia(s) ==
    /\ process = "running"
    /\ uvLoop[s].pc = "read"
    /\ uvLoop' = [uvLoop EXCEPT ![s].pc = "closed"]
    /\ uvConn' = [uvConn EXCEPT ![s].wsConn = "closed", ![s].ctx = "cancelled"]
    /\ uvLog' = [uvLog EXCEPT ![s] = Append(@, LogLine("WebSocket read error: %v", "", ""))]
    /\ inbound' = [t \in Tracks |->
           IF inbound[t].pc = "read" THEN [inbound[t] EXCEPT !.pc = "ended"] ELSE inbound[t]]
    /\ UNCHANGED <<process, webrtcConn, iceCallback, activeUltravoxConnection,
                   activeUltravoxLock, lastSet, observer, trackOut, uvOut,
                   clientOut, uvIn, pk, loopback, libVars>>

\* A read error after which the context is cancelled and the connection
\* closed while the worker stays in its loop.
ReadErrorKeepsLoop(s) ==
    /\ process = "running"
    /\ uvLoop[s].pc = "read"
    /\ uvConn[s].ctx = "active"
    /\ uvConn' = [uvConn EXCEPT ![s].wsConn = "closed", ![s].ctx = "cancelled"]
    /\ uvLog' = [uvLog EXCEPT ![s] = Append(@, LogLine("WebSocket read error: %v", "", ""))]
    /\ UNCHANGED <<process, webrtcConn, iceCallback, activeUltravoxConnection,
                   activeUltravoxLock, lastSet, uvLoop, inbound, observer, trackOut, uvOut,
                   clientOut, uvIn, pk, loopback, libVars>>

\* A return on a read error that closes the connection and leaves the
\* context as it is.
ReadErrorKeepsContext(s) ==
    /\ process = "running"
    /\ uvLoop[s].pc = "read"
    /\ uvLoop' = [uvLoop EXCEPT ![s].pc = "closed"]
    /\ uvConn' = [uvConn EXCEPT ![s].wsConn = "closed"]
    /\ uvLog' = [uvLog EXCEPT ![s] = Append(@, LogLine("WebSocket read error: %v", "", ""))]
    /\ UNCHANGED <<process, webrtcConn, iceCallback, activeUltravoxConnection,
                   activeUltravoxLock, lastSet, inbound, observer, trackOut, uvOut,
                   clientOut, uvIn, pk, loopback, libVars>>

\* ReadMessage failed: the loop returns, the deferred Close and cancel run.
ReadError(s) ==
    /\ process = "running"
    /\ uvLoop[s].pc = "read"
    /\ uvLoop' = [uvLoop EXCEPT ![s].pc = "closed"]
    /\ uvConn' = [uvConn EXCEPT ![s].wsConn = "closed", ![s].ctx = "cancelled"]
    /\ uvLog' = [uvLog EXCEPT ![s] = Append(@, LogLine("WebSocket read error: %v", "", ""))]
    /\ UNCHANGED <<process, webrtcConn, iceCallback, activeUltravoxConnection,
                   activeUltravoxLock, lastSet, inbound, observer, trackOut, uvOut,
                   clientOut, uvIn, pk, loopback, libVars>>

\* A binary frame: processUltravoxAudio builds the packet and advances the
\* counters; the write to the audio track follows.
ReadBinary(s, pcmData) ==
    /\ CanRead(s)
    /\ LET r == ProcessUltravoxAudio(pcmData, uvLoop[s].sequenceNumber,
                                     uvLoop[s].timestamp, uvLoop[s].ssrc)
       IN uvLoop' = [uvLoop EXCEPT ![s].pc = "write", ![s].packet = r.packet,
                                   ![s].sequenceNumber = r.sequenceNumber,
                                   ![s].timestamp = r.timestamp]
    /\ uvIn' = [uvIn EXCEPT ![s] = Append(@, BinaryFrame(pcmData))]
    /\ UNCHANGED <<process, webrtcConn, iceCallback, activeUltravoxConnection,
                   activeUltravoxLock, lastSet, uvConn, inbound, observer, trackOut,
                   uvOut, clientOut, uvLog, pk, loopback, libVars>>

\* The frame types of the switch's default branch.
OtherMessageTypes == {"PingMessage", "PongMessage"}
OtherFrame(messageType) == [messageType |-> messageType, pcm |-> <<>>, text |-> ""]

\* A loop that packetizes a frame of any type but text.
ReadOtherPacketized(s, messageType) ==
    /\ CanRead(s)
    /\ LET r == ProcessUltravoxAudio(<<>>, uvLoop[s].sequenceNumber,
                                     uvLoop[s].timestamp, uvLoop[s].ssrc)
       IN uvLoop' = [uvLoop EXCEPT ![s].pc = "write", ![s].packet = r.packet,
                                   ![s].sequenceNumber = r.sequenceNumber,
                                   ![s].timestamp = r.timestamp]
    /\ uvIn' = [uvIn EXCEPT ![s] = Append(@, OtherFrame(messageType))]
    /\ UNCHANGED <<process, webrtcConn, iceCallback, activeUltravoxConnection,
                   activeUltravoxLock, lastSet, uvConn, inbound, observer, trackOut,
                   uvOut, clientOut, uvLog, pk, loopback, libVars>>

\* A frame that is neither text nor binary: it is logged, and the loop is
\* at its top again.
ReadOther(s, messageType) ==
    /\ CanRead(s)
    /\ uvIn' = [uvIn EXCEPT ![s] = Append(@, OtherFrame(messageType))]
    /\ uvLog' = [uvLog EXCEPT ![s] = Append(@,
           LogLine("Received unexpected WebSocket message type: %d", messageType, ""))]
    /\ uvLoop' = [uvLoop EXCEPT ![s].pc = LoopTopPc(s)]
    /\ uvConn' = LoopTopConn(s)
    /\ UNCHANGED <<process, webrtcConn, iceCallback, activeUltravoxConnection,
                   activeUltravoxLock, lastSet, inbound, observer, trackOut,
                   uvOut, clientOut, pk, loopback, libVars>>

\* A write that puts the newest packet first.
TrackWriteNewestFirst(s, ok) ==
    /\ process = "running"
    /\ uvLoop[s].pc = "write"
    /\ trackOut' = [trackOut EXCEPT ![uvConn[s].audioTrack] =
           <<[packet |-> uvLoop[s].packet, session |-> s, ok |-> ok]>> \o @]
    /\ uvLog' = [uvLog EXCEPT ![s] =
           IF ok THEN @ ELSE Append(@, LogLine("Failed to write to track: %v", "", ""))]
    /\ uvLoop' = [uvLoop EXCEPT ![s].pc = "read", ![s].packet = NoPacket]
    /\ UNCHANGED <<process, webrtcConn, iceCallback, activeUltravoxConnection,
                   activeUltravoxLock, lastSet, uvConn, inbound, observer, uvOut,
                   clientOut, uvIn, pk, loopback, libVars>>

\* A write that is tried again after a failure.
TrackWriteRetried(s, ok) ==
    /\ process = "running"
    /\ uvLoop[s].pc = "write"
    /\ trackOut' = [trackOut EXCEPT ![uvConn[s].audioTrack] =
           Append(@, [packet |-> uvLoop[s].packet, session |-> s, ok |-> ok])]
    /\ uvLog' = [uvLog EXCEPT ![s] =
           IF ok THEN @ ELSE Append(@, LogLine("Failed to write to track: %v", "", ""))]
    /\ uvLoop' = IF ok THEN [uvLoop EXCEPT ![s].pc = LoopTopPc(s), ![s].packet = NoPacket]
                 ELSE uvLoop
    /\ uvConn' = LoopTopConn(s)
    /\ UNCHANGED <<process, webrtcConn, iceCallback, activeUltravoxConnection,
                   activeUltravoxLock, lastSet, inbound, observer, uvOut,
                   clientOut, uvIn, pk, loopback, libVars>>

\* uvConn.audioTrack.Write(raw): the packet is written, or the failure logged.
TrackWrite(s, ok) ==
    /\ process = "running"
    /\ uvLoop[s].pc = "write"
    /\ trackOut' = [trackOut EXCEPT ![uvConn[s].audioTrack] =
           Append(@, [packet |-> uvLoop[s].packet, session |-> s, ok |-> ok])]
    /\ uvLog' = [uvLog EXCEPT ![s] =
           IF ok THEN @ ELSE Append(@, LogLine("Failed to write to track: %v", "", ""))]
    /\ uvLoop' = [uvLoop EXCEPT ![s].pc = LoopTopPc(s), ![s].packet = NoPacket]
    /\ uvConn' = LoopTopConn(s)
    /\ UNCHANGED <<process, webrtcConn, iceCallback, activeUltravoxConnection,
                   activeUltravoxLock, lastSet, inbound, observer, uvOut,
                   clientOut, uvIn, pk, loopback, libVars>>

\* A relay without the parse check.
JsonRouteUnparsed(message, clientWs) ==
    IF clientWs # 0 THEN "forward" ELSE "local"

\* A relay without the check of the type member.
JsonRouteUntyped(message, clientWs) ==
    IF UnmarshalMapErr(message) THEN "drop"
    ELSE IF clientWs # 0 THEN "forward"
    ELSE "local"

\* What handleUltravoxJsonMessage does with a text frame before any forward:
\* "drop" (parse error, or no string type), "forward" (the observer reference
\* it read is not nil) or "local".
JsonRoute(message, clientWs) ==
    IF UnmarshalMapErr(message) \/ ~EventTypeOk(message) THEN "drop"
    ELSE IF clientWs # 0 THEN "forward"
    ELSE "local"

\* The lines logged for a dropped text frame.
DropLog(message) ==
    IF UnmarshalMapErr(message)
    THEN <<LogLine("Error parsing JSON: %v", "", ""), LogLine("%s", message, "")>>
    ELSE <<LogLine("Unknown JSON message: %s", message, "")>>

\* A text frame: handleUltravoxJsonMessage up to its read of uvConn.clientWs.
ReadText(s, message) ==
    /\ CanRead(s)
    /\ uvIn' = [uvIn EXCEPT ![s] = Append(@, TextFrame(message))]
    /\ LET route == JsonRoute(message, uvConn[s].clientWs)
       IN CASE route = "drop" ->
                 /\ uvLog' = [uvLog EXCEPT ![s] = Append2(@, DropLog(message))]
                 /\ uvLoop' = [uvLoop EXCEPT ![s].pc = LoopTopPc(s)]
                 /\ uvConn' = LoopTopConn(s)
            [] route = "forward" ->
                 /\ uvLoop' = [uvLoop EXCEPT ![s].pc = "forward", ![s].message = message,
                                             ![s].clientWs = uvConn[s].clientWs]
                 /\ UNCHANGED <<uvLog, uvConn>>
            [] OTHER ->
                 /\ uvLog' = [uvLog EXCEPT ![s] = Append2(@, ProcessEventLocally(message))]
                 /\ uvLoop' = [uvLoop EXCEPT ![s].pc = LoopTopPc(s)]
                 /\ uvConn' = LoopTopConn(s)
    /\ UNCHANGED <<process, webrtcConn, iceCallback, activeUltravoxConnection,
                   activeUltravoxLock, lastSet, inbound, observer, trackOut,
                   uvOut, clientOut, pk, loopback, libVars>>

\* uvConn.clientWs.WriteMessage(TextMessage, message): the field is read a
\* second time, without the lock that its writers hold.  The build may reuse
\* the value of the nil check (reread = FALSE) or load the field again; a nil
\* receiver panics.  Then the event is handled locally.
Forward(s, reread, ok) ==
    /\ process = "running"
    /\ uvLoop[s].pc = "forward"
    /\ LET target == IF reread THEN uvConn[s].clientWs ELSE uvLoop[s].clientWs
       IN IF target = 0
          THEN /\ process' = "panicked"
               /\ UNCHANGED <<uvLoop, uvConn, clientOut, uvLog>>
          ELSE /\ ok => observer[target].conn = "open"
               /\ clientOut' = [clientOut EXCEPT ![target] =
                      Append(@, [message |-> uvLoop[s].message, session |-> s, ok |-> ok])]
               /\ uvLog' = [uvLog EXCEPT ![s] = Append2(
                      IF ok THEN @
                      ELSE Append(@, LogLine("Error forwarding event to client: %v", "", "")),
                      ProcessEventLocally(uvLoop[s].message))]
               /\ uvLoop' = [uvLoop EXCEPT ![s].pc = LoopTopPc(s), ![s].message = "",
                                           ![s].clientWs = 0]
               /\ uvConn' = LoopTopConn(s)
               /\ UNCHANGED process
    /\ UNCHANGED <<webrtcConn, iceCallback, activeUltravoxConnection, activeUltravoxLock,
                   lastSet, inbound, observer, trackOut, uvOut, uvIn, pk, loopback, libVars>>

(***************************************************************************)
(* The inbound transcoder: createAudioDecoder and processAudioPacket.      *)
(***************************************************************************)
MimeTypeOpus == "audio/opus"
MimeTypePCMA == "audio/PCMA"
MimeTypePCMU == "audio/PCMU"
MimeTypeG722 == "audio/G722"
MimeTypeVP8 == "video/VP8"

IsAudio(mimeType) == mimeType \in {MimeTypeOpus, MimeTypePCMA, MimeTypePCMU, MimeTypeG722}

\* createAudioDecoder: the decoder ("opus", or "nil" for G.711) or an error.
createAudioDecoder(mimeType) ==
    CASE mimeType = MimeTypeOpus -> [err |-> FALSE, decoder |-> "opus"]
      [] mimeType \in {MimeTypePCMA, MimeTypePCMU} -> [err |-> FALSE, decoder |-> "nil"]
      [] OTHER -> [err |-> TRUE, decoder |-> "nil"]

\* g711.DecodeUlawFrame.
DecodeUlawFrame(b) ==
    LET u == 255 - b
        mag == ((u % 16) * 8 + 132) * (2 ^ ((u \div 16) % 8)) - 132
    IN IF u >= 128 THEN -mag ELSE mag

\* b XOR 0x55.
Xor55(b) ==
    LET bit(x, i) == (x \div (2 ^ i)) % 2
        F[i \in 0..8] == IF i = 8 THEN 0
                         ELSE (IF bit(b, i) # bit(85, i) THEN 2 ^ i ELSE 0) + F[i + 1]
    IN F[0]

\* g711.DecodeAlawFrame.
DecodeAlawFrame(b) ==
    LET a == Xor55(b)
        e == (a \div 16) % 8
        m == a % 16
        mag == IF e = 0 THEN m * 16 + 8 ELSE (m * 16 + 264) * (2 ^ (e - 1))
    IN IF a >= 128 THEN mag ELSE -mag

\* A decoder that keeps the low byte of every sample only.
PutSamplesLowByte(samples) == [i \in 1..Len(samples) |-> (samples[i] % Uint16) % 256]

\* binary.LittleEndian.PutUint16(.., uint16(pcmSample)) for every sample.
PutSamples(samples) ==
    [i \in 1..(2 * Len(samples)) |->
        LET u == samples[(i + 1) \div 2] % Uint16
        IN IF i % 2 = 1 THEN u % 256 ELSE u \div 256]

\* processAudioPacket.  opus is what the Opus decoder makes of the payload:
\* an error, or the samples it decoded.
processAudioPacket(payload, mimeType, decoder, opus) ==
    CASE mimeType = MimeTypePCMA ->
           [err |-> FALSE,
            pcmData |-> PutSamples([i \in 1..Len(payload) |-> DecodeAlawFrame(payload[i])])]
      [] mimeType = MimeTypePCMU ->
           [err |-> FALSE,
            pcmData |-> PutSamples([i \in 1..Len(payload) |-> DecodeUlawFrame(payload[i])])]
      [] mimeType = MimeTypeOpus ->
           IF decoder # "opus" \/ opus.err
           THEN [err |-> TRUE, pcmData |-> <<>>]
           ELSE [err |-> FALSE, pcmData |-> PutSamples(opus.samples)]
      [] OTHER -> [err |-> TRUE, pcmData |-> <<>>]

(***************************************************************************)
(* The inbound media worker: OnTrack and handleIncomingAudio.              *)
(***************************************************************************)
Payloads == {<<255>>, <<0, 213>>}
OpusOk == [err |-> FALSE, samples |-> <<1, -2>>]
OpusErr == [err |-> TRUE, samples |-> <<>>]
PacketCodecs == {MimeTypeOpus, MimeTypePCMA, MimeTypePCMU, MimeTypeG722}
TrackCodecs == PacketCodecs \cup {MimeTypeVP8}

\* What one track.Read can bring.
InboundInputs ==
    {[kind |-> "readError", mimeType |-> "", payload |-> <<>>, opus |-> OpusErr],
     [kind |-> "badRtp", mimeType |-> "", payload |-> <<>>, opus |-> OpusErr]}
    \cup {[kind |-> "packet", mimeType |-> m, payload |-> pl, opus |-> OpusErr] :
             m \in PacketCodecs, pl \in Payloads}
    \cup {[kind |-> "packet", mimeType |-> MimeTypeOpus, payload |-> pl, opus |-> OpusOk] :
             pl \in Payloads}

\* OnTrack: a worker is started for an audio track only.
OnTrack(t, mimeType) ==
    /\ process = "running"
    /\ inbound[t].pc = "none"
    /\ \A u \in Tracks : u < t => inbound[u].pc # "none"
    /\ \E p \in Peers : IceStarted(webrtcConn[p].offer)
    /\ inbound' = [inbound EXCEPT ![t].pc = IF IsAudio(mimeType) THEN "start" ELSE "ignored",
                                  ![t].mimeType = mimeType]
    /\ UNCHANGED <<process, webrtcConn, iceCallback, activeUltravoxConnection,
                   activeUltravoxLock, lastSet, uvConn, uvLoop, observer, trackOut, uvOut,
                   clientOut, uvIn, uvLog, pk, loopback, libVars>>

\* One decoder for every worker: the same instance whoever asks.
SharedDecoder(workers) == 1

\* opus.NewDecoder: a new instance, none of those the workers hold.
NewDecoder(workers) == 1 + Cardinality({u \in DOMAIN workers : workers[u].instance # 0})

\* handleIncomingAudio before its loop: the decoder is created, or the
\* worker returns.  decoders counts the calls of createAudioDecoder and
\* instance names the Opus decoder the worker holds (0: none).
InboundStart(t) ==
    /\ process = "running"
    /\ inbound[t].pc = "start"
    /\ LET d == createAudioDecoder(inbound[t].mimeType)
       IN inbound' = [inbound EXCEPT
              ![t].pc = IF d.err THEN "ended" ELSE "read",
              ![t].decoder = d.decoder,
              ![t].decoders = @ + 1,
              ![t].instance = IF d.decoder = "opus" THEN NewDecoder(inbound) ELSE 0,
              ![t].log = IF d.err
                         THEN Append(@, LogLine("Failed to create audio decoder: %v",
                                                inbound[t].mimeType, ""))
                         ELSE @]
    /\ UNCHANGED <<process, webrtcConn, iceCallback, activeUltravoxConnection,
                   activeUltravoxLock, lastSet, uvConn, uvLoop, observer, trackOut, uvOut,
                   clientOut, uvIn, uvLog, pk, loopback, libVars>>

\* One pass of the loop up to the registry lookup: a read error ends the
\* worker; a packet that cannot be unmarshalled or decoded is skipped.
\* track.Codec() is read again for every packet, and follows the payload
\* type of the packet read.
InboundRead(t, in) ==
    /\ process = "running"
    /\ inbound[t].pc = "read"
    /\ in.kind # "readError" => inbound[t].reads < MaxPackets
    /\ LET r == processAudioPacket(in.payload, in.mimeType, inbound[t].decoder, in.opus)
       IN inbound' = [inbound EXCEPT
              ![t].reads = IF in.kind = "readError" THEN @ ELSE @ + 1,
              ![t].mimeType = IF in.kind = "packet" THEN in.mimeType ELSE @,
              ![t].pc = CASE in.kind = "readError" -> "ended"
                          [] in.kind = "badRtp" -> "read"
                          [] OTHER -> IF r.err THEN "read" ELSE "find",
              ![t].pcmData = IF in.kind = "packet" /\ ~r.err THEN r.pcmData ELSE <<>>,
              ![t].log = CASE in.kind = "readError" ->
                                Append(@, LogLine("Error reading from track: %v", "", ""))
                           [] in.kind = "badRtp" ->
                                Append(@, LogLine("Error unmarshalling RTP packet: %v", "", ""))
                           [] OTHER ->
                                IF r.err
                                THEN Append(@, LogLine("Error processing audio packet: %v",
                                                       in.mimeType, ""))
                                ELSE @]
    /\ UNCHANGED <<process, webrtcConn, iceCallback, activeUltravoxConnection,
                   activeUltravoxLock, lastSet, uvConn, uvLoop, observer, trackOut, uvOut,
                   clientOut, uvIn, uvLog, pk, loopback, libVars>>

\* findActiveUltravoxConnection takes the registry lock.
InboundFindLock(t) ==
    /\ process = "running"
    /\ inbound[t].pc = "find"
    /\ activeUltravoxLock = NoHolder
    /\ activeUltravoxLock' = TrackWorker(t)
    /\ inbound' = [inbound EXCEPT ![t].pc = "finding"]
    /\ UNCHANGED <<process, webrtcConn, iceCallback, activeUltravoxConnection, lastSet,
                   uvConn, uvLoop, observer, trackOut, uvOut, clientOut, uvIn, uvLog, pk, loopback, libVars>>

\* ... reads the slot and releases the lock.
InboundFind(t) ==
    /\ process = "running"
    /\ inbound[t].pc = "finding"
    /\ activeUltravoxLock = TrackWorker(t)
    /\ activeUltravoxLock' = NoHolder
    /\ inbound' = [inbound EXCEPT
           ![t].pc = "found",
           ![t].activeUVConn = findActiveUltravoxConnection(activeUltravoxConnection)]
    /\ UNCHANGED <<process, webrtcConn, iceCallback, activeUltravoxConnection, lastSet,
                   uvConn, uvLoop, observer, trackOut, uvOut, clientOut, uvIn, uvLog, pk, loopback, libVars>>

\* A check of the session alone.
CanForwardUndialled(conn) == conn # 0

\* activeUVConn != nil && activeUVConn.wsConn != nil
CanForward(conn) == conn # 0 /\ uvConn[conn].wsConn # "nil"

\* The check fails: the buffer is dropped.
InboundDrop(t) ==
    /\ process = "running"
    /\ inbound[t].pc = "found"
    /\ ~CanForward(inbound[t].activeUVConn)
    /\ inbound' = [inbound EXCEPT ![t].pc = "read", ![t].pcmData = <<>>,
                                  ![t].activeUVConn = 0]
    /\ UNCHANGED <<process, webrtcConn, iceCallback, activeUltravoxConnection,
                   activeUltravoxLock, lastSet, uvConn, uvLoop, observer, trackOut, uvOut,
                   clientOut, uvIn, uvLog, pk, loopback, libVars>>

\* The check passes and the session's wsLock is taken.
InboundLock(t) ==
    /\ process = "running"
    /\ inbound[t].pc = "found"
    /\ CanForward(inbound[t].activeUVConn)
    /\ uvConn[inbound[t].activeUVConn].wsLock = NoHolder
    /\ uvConn' = [uvConn EXCEPT ![inbound[t].activeUVConn].wsLock = TrackWorker(t)]
    /\ inbound' = [inbound EXCEPT ![t].pc = "send"]
    /\ UNCHANGED <<process, webrtcConn, iceCallback, activeUltravoxConnection,
                   activeUltravoxLock, lastSet, uvLoop, observer, trackOut, uvOut,
                   clientOut, uvIn, uvLog, pk, loopback, libVars>>

\* A send that returns on a failed write with the wsLock still held.
InboundSendKeepsLock(t, ok) ==
    /\ process = "running"
    /\ inbound[t].pc = "send"
    /\ LET c == inbound[t].activeUVConn
       IN /\ uvConn[c].wsLock = TrackWorker(t)
          /\ ok => uvConn[c].wsConn = "open"
          /\ uvOut' = [uvOut EXCEPT ![c] =
                 Append(@, [pcmData |-> inbound[t].pcmData, track |-> t,
                            read |-> inbound[t].reads, ok |-> ok])]
          /\ uvConn' = [uvConn EXCEPT ![c].wsLock = IF ok THEN NoHolder ELSE @]
    /\ inbound' = [inbound EXCEPT
           ![t].pc = "read", ![t].pcmData = <<>>, ![t].activeUVConn = 0,
           ![t].log = IF ok THEN @
                      ELSE Append(@, LogLine("Error sending audio to Ultravox: %v", "", ""))]
    /\ UNCHANGED <<process, webrtcConn, iceCallback, activeUltravoxConnection,
                   activeUltravoxLock, lastSet, uvLoop, observer, trackOut, clientOut,
                   uvIn, uvLog, pk, loopback, libVars>>

\* wsConn.WriteMessage(BinaryMessage, pcmData), a failure logged, and the
\* wsLock released.
InboundSend(t, ok) ==
    /\ process = "running"
    /\ inbound[t].pc = "send"
    /\ LET c == inbound[t].activeUVConn
       IN /\ uvConn[c].wsLock = TrackWorker(t)
          /\ ok => uvConn[c].wsConn = "open"
          /\ uvOut' = [uvOut EXCEPT ![c] =
                 Append(@, [pcmData |-> inbound[t].pcmData, track |-> t,
                            read |-> inbound[t].reads, ok |-> ok])]
          /\ uvConn' = [uvConn EXCEPT ![c].wsLock = NoHolder]
    /\ inbound' = [inbound EXCEPT
           ![t].pc = "read", ![t].pcmData = <<>>, ![t].activeUVConn = 0,
           ![t].log = IF ok THEN @
                      ELSE Append(@, LogLine("Error sending audio to Ultravox: %v", "", ""))]
    /\ UNCHANGED <<process, webrtcConn, iceCallback, activeUltravoxConnection,
                   activeUltravoxLock, lastSet, uvLoop, observer, trackOut, clientOut,
                   uvIn, uvLog, pk, loopback, libVars>>

(***************************************************************************)
(* The observer worker: handleWebSocketConnection.                         *)
(***************************************************************************)
\* wsUpgrader.Upgrade: on an error the handler returns.
ObserverUpgrade(o, ok) ==
    /\ process = "running"
    /\ observer[o].pc = "none"
    /\ \A q \in Observers : q < o => observer[q].pc # "none"
    /\ observer' = [observer EXCEPT ![o] =
           IF ok THEN [pc |-> "attach", conn |-> "open"]
           ELSE [pc |-> "done", conn |-> "none"]]
    /\ UNCHANGED <<process, webrtcConn, iceCallback, activeUltravoxConnection,
                   activeUltravoxLock, lastSet, uvConn, uvLoop, inbound, trackOut, uvOut,
                   clientOut, uvIn, uvLog, pk, loopback, libVars>>

\* activeUltravoxLock.Lock() before the attach or the detach.
ObserverLock(o) ==
    /\ process = "running"
    /\ observer[o].pc \in {"attach", "detach"}
    /\ activeUltravoxLock = NoHolder
    /\ activeUltravoxLock' = ObserverWorker(o)
    /\ observer' = [observer EXCEPT ![o].pc =
           IF observer[o].pc = "attach" THEN "attaching" ELSE "detaching"]
    /\ UNCHANGED <<process, webrtcConn, iceCallback, activeUltravoxConnection, lastSet,
                   uvConn, uvLoop, inbound, trackOut, uvOut, clientOut, uvIn, uvLog, pk, loopback, libVars>>

\* The fields of the sessions after `if active != nil { active.clientWs = conn }`.
StoreClientWs(conns, active, conn) ==
    IF active # 0 THEN [conns EXCEPT ![active].clientWs = conn] ELSE conns

\* The connection is stored in the active session, if there is one.
ObserverAttach(o) ==
    /\ process = "running"
    /\ observer[o].pc = "attaching"
    /\ activeUltravoxLock = ObserverWorker(o)
    /\ uvConn' = StoreClientWs(uvConn, activeUltravoxConnection, o)
    /\ activeUltravoxLock' = NoHolder
    /\ observer' = [observer EXCEPT ![o].pc = "read"]
    /\ UNCHANGED <<process, webrtcConn, iceCallback, activeUltravoxConnection, lastSet,
                   uvLoop, inbound, trackOut, uvOut, clientOut, uvIn, uvLog, pk, loopback, libVars>>

\* conn.ReadMessage failed: the read loop is left.  (A message that is read
\* is only logged.)
ObserverReadError(o) ==
    /\ process = "running"
    /\ observer[o].pc = "read"
    /\ observer' = [observer EXCEPT ![o].pc = "detach"]
    /\ UNCHANGED <<process, webrtcConn, iceCallback, activeUltravoxConnection,
                   activeUltravoxLock, lastSet, uvConn, uvLoop, inbound, trackOut, uvOut,
                   clientOut, uvIn, uvLog, pk, loopback, libVars>>

\* The active session's clientWs is set to nil and the lock released.  The
\* connection is still open: its deferred Close runs after the Unlock.
ObserverDetach(o) ==
    /\ process = "running"
    /\ observer[o].pc = "detaching"
    /\ activeUltravoxLock = ObserverWorker(o)
    /\ uvConn' = StoreClientWs(uvConn, activeUltravoxConnection, 0)
    /\ activeUltravoxLock' = NoHolder
    /\ observer' = [observer EXCEPT ![o].pc = "close"]
    /\ UNCHANGED <<process, webrtcConn, iceCallback, activeUltravoxConnection, lastSet,
                   uvLoop, inbound, trackOut, uvOut, clientOut, uvIn, uvLog, pk, loopback, libVars>>

\* defer conn.Close(): the handler returns and the connection is closed.
\* Until this step a write through a reference read before the detach can
\* still succeed.
ObserverClose(o) ==
    /\ process = "running"
    /\ observer[o].pc = "close"
    /\ observer' = [observer EXCEPT ![o] = [pc |-> "done", conn |-> "closed"]]
    /\ UNCHANGED <<process, webrtcConn, iceCallback, activeUltravoxConnection,
                   activeUltravoxLock, lastSet, uvConn, uvLoop, inbound, trackOut, uvOut,
                   clientOut, uvIn, uvLog, pk, loopback, libVars>>

(***************************************************************************)
(* The bridge.                                                             *)
(***************************************************************************)
(***************************************************************************)
(* One session's packetizer over a long run of binary frames: the counters *)
(* of handleUltravoxWebSocket, the last two headers, and the exact totals. *)
(***************************************************************************)
\* The frame lengths of the run, in bytes: a 20 ms frame and a very long one.
RunLengths == {320, 2147483646}
IsBig(pcmLen) == pcmLen > Uint16

\* total + n, exactly: total is <<multiples of 2^32, high half, low half>>.
ExactAdd(total, n) ==
    LET low == total[3] + (n % Uint16)
        high == total[2] + (n \div Uint16) + (low \div Uint16)
    IN <<total[1] + (high \div Uint16), high % Uint16, low % Uint16>>

RunFrame(pcmLen) ==
    /\ pk.frames < MaxRunFrames
    /\ IsBig(pcmLen) => pk.big < MaxBigFrames
    /\ LET c == Packetize(pcmLen, pk.sequenceNumber, pk.timestamp, SSRC)
       IN pk' = [sequenceNumber |-> c.sequenceNumber, timestamp |-> c.timestamp,
                 frames |-> pk.frames + 1,
                 samples |-> ExactAdd(pk.samples, pcmLen \div 2),
                 big |-> pk.big + (IF IsBig(pcmLen) THEN 1 ELSE 0),
                 header |-> c.header, previous |-> pk.header]
    /\ UNCHANGED <<bridgeVars, loopback, libVars>>

NextPacketizer == \E pcmLen \in RunLengths : RunFrame(pcmLen)

SpecPacketizer == Init /\ [][NextPacketizer]_vars

(***************************************************************************)
(* The two transcoders one after the other: a G.711 payload decoded by     *)
(* processAudioPacket, and that PCM packetized by processUltravoxAudio     *)
(* with the counters of one session.                                       *)
(***************************************************************************)
MaxLoopbacks == 2
PayloadBytes == 160

\* Payloads of 0 to 3 bytes and of 160 bytes (20 ms at 8000 Hz).
LoopbackPayloads ==
    {<<>>, <<0>>, <<255>>, <<0, 213>>, <<127, 128, 1>>,
     [i \in 1..PayloadBytes |-> 255], [i \in 1..PayloadBytes |-> (i * 37) % 256]}

LoopbackDecode(payload, mimeType) ==
    /\ loopback.stage = "idle"
    /\ loopback.rounds < MaxLoopbacks
    /\ LET r == processAudioPacket(payload, mimeType, "nil", OpusErr)
       IN loopback' = [loopback EXCEPT !.stage = "decoded", !.payload = payload,
                                       !.mimeType = mimeType, !.err = r.err,
                                       !.pcmData = r.pcmData]
    /\ UNCHANGED <<bridgeVars, pk, libVars>>

LoopbackPacketize ==
    /\ loopback.stage = "decoded"
    /\ LET r == ProcessUltravoxAudio(loopback.pcmData, loopback.sequenceNumber,
                                     loopback.timestamp, SSRC)
       IN loopback' = [loopback EXCEPT
              !.stage = "idle", !.rounds = @ + 1, !.packet = r.packet,
              !.before = [sequenceNumber |-> loopback.sequenceNumber,
                          timestamp |-> loopback.timestamp],
              !.sequenceNumber = r.sequenceNumber, !.timestamp = r.timestamp]
    /\ UNCHANGED <<bridgeVars, pk, libVars>>

NextLoopback ==
    \/ \E payload \in LoopbackPayloads, mimeType \in {MimeTypePCMA, MimeTypePCMU} :
          LoopbackDecode(payload, mimeType)
    \/ LoopbackPacketize

SpecLoopback == Init /\ [][NextLoopback]_vars

(***************************************************************************)
(* The two transcoders the other way round: one 16-bit sample packetized   *)
(* by processUltravoxAudio (mu-law), and that payload decoded by           *)
(* processAudioPacket as a PCMU packet.                                    *)
(***************************************************************************)
\* The values of an int16.
Int16 == (-(Uint16 \div 2))..(Uint16 \div 2 - 1)

RoundTripEncode(sample) ==
    /\ roundTrip.stage = "idle"
    /\ LET r == ProcessUltravoxAudio(PutSamples(<<sample>>), InitialSequenceNumber,
                                     InitialTimestamp, SSRC)
       IN roundTrip' = [roundTrip EXCEPT !.stage = "encoded", !.sample = sample,
                                         !.payload = r.packet.Payload]
    /\ UNCHANGED <<bridgeVars, pk, loopback, client, duration>>

RoundTripDecode ==
    /\ roundTrip.stage = "encoded"
    /\ LET r == processAudioPacket(roundTrip.payload, MimeTypePCMU, "nil", OpusErr)
       IN roundTrip' = [roundTrip EXCEPT !.stage = "decoded",
                                         !.decoded = Sample(r.pcmData, 1)]
    /\ UNCHANGED <<bridgeVars, pk, loopback, client, duration>>

NextRoundTrip ==
    \/ roundTrip.stage = "idle" /\ \E sample \in Int16 : RoundTripEncode(sample)
    \/ RoundTripDecode

SpecRoundTrip == Init /\ [][NextRoundTrip]_vars

(***************************************************************************)
(* NewClient and its options.  An Option is any function on a Config: the *)
(* ones of the package, and one of the caller's that sets a field of the   *)
(* exported Config no packaged option sets.                                *)
(***************************************************************************)
MaxCalls == 2

\* An option as NewClient is given it: the function that made it and the
\* argument it was made with, a string s, a boolean b or a duration d in
\* whole seconds.
ClientOption(name, s, b, d) == [option |-> name, s |-> s, b |-> b, d |-> d]
WithAPIKey(apiKey) == ClientOption("WithAPIKey", apiKey, FALSE, 0)
WithAPIBaseURL(url) == ClientOption("WithAPIBaseURL", url, FALSE, 0)
WithSystemPrompt(prompt) == ClientOption("WithSystemPrompt", prompt, FALSE, 0)
WithModel(model) == ClientOption("WithModel", model, FALSE, 0)
WithVoice(voice) == ClientOption("WithVoice", voice, FALSE, 0)
WithLanguageHint(languageHint) == ClientOption("WithLanguageHint", languageHint, FALSE, 0)
WithFirstSpeaker(speaker) == ClientOption("WithFirstSpeaker", speaker, FALSE, 0)
WithJoinTimeout(timeout) == ClientOption("WithJoinTimeout", "", FALSE, timeout)
WithMaxDuration(maxDuration) == ClientOption("WithMaxDuration", "", FALSE, maxDuration)
WithInitialOutputMedium(medium) == ClientOption("WithInitialOutputMedium", medium, FALSE, 0)
WithRecordingEnabled(enabled) == ClientOption("WithRecordingEnabled", "", enabled, 0)
SetTemplateContext(firstname) == ClientOption("func(c *Config)", firstname, FALSE, 0)

\* opt(&config): c is [config, context], context being the value at
\* ConfigContext.  An option that sets a member the model does not keep
\* leaves c as it is.
ApplyOption(c, opt) ==
    CASE opt.option = "WithAPIKey" -> [c EXCEPT !.config.APIKey = opt.s]
      [] opt.option = "WithAPIBaseURL" -> [c EXCEPT !.config.APIBaseURL = opt.s]
      [] opt.option = "WithSystemPrompt" ->
           [c EXCEPT !.config.CallRequest.SystemPrompt = opt.s]
      [] opt.option = "WithModel" -> [c EXCEPT !.config.CallRequest.Model = opt.s]
      [] opt.option = "WithVoice" -> [c EXCEPT !.config.CallRequest.Voice = opt.s]
      [] opt.option = "WithLanguageHint" ->
           [c EXCEPT !.config.CallRequest.LanguageHint = opt.s]
      [] opt.option = "WithFirstSpeaker" ->
           [c EXCEPT !.config.CallRequest.FirstSpeaker = opt.s]
      [] opt.option = "WithJoinTimeout" ->
           [c EXCEPT !.config.CallRequest.JoinTimeout = opt.d]
      [] opt.option = "WithMaxDuration" ->
           [c EXCEPT !.config.CallRequest.MaxDuration = opt.d]
      [] opt.option = "WithInitialOutputMedium" ->
           [c EXCEPT !.config.CallRequest.InitialOutputMedium = opt.s]
      [] opt.option = "WithRecordingEnabled" ->
           [c EXCEPT !.config.CallRequest.RecordingEnabled = opt.b]
      [] opt.option = "func(c *Config)" ->
           [config |-> [c.config EXCEPT !.CallRequest.TemplateContext = ConfigContext],
            context |-> [EmptyContext EXCEPT !.UserFirstname = opt.s]]
      [] OTHER -> c

RECURSIVE ApplyOptions(_, _)
ApplyOptions(c, opts) ==
    IF opts = <<>> THEN c ELSE ApplyOptions(ApplyOption(c, Head(opts)), Tail(opts))

ClientOptions ==
    {<<>>,
     <<WithAPIKey("test-api-key")>>,
     <<WithAPIKey("test-api-key"), WithSystemPrompt("Custom prompt"), WithModel("custom-model")>>,
     <<WithAPIKey("test-api-key"), WithVoice("custom-voice"),
       WithFirstSpeaker(FirstSpeakerUser),
       WithAPIBaseURL("https://custom-api.example.com"),
       WithInitialOutputMedium(OutputMediumText), WithRecordingEnabled(TRUE),
       WithLanguageHint("en"), WithJoinTimeout(60), WithMaxDuration(5 * 60)>>,
     <<WithAPIKey("test-api-key"), SetTemplateContext("Ann")>>}

NewClient(opts) ==
    /\ ~client.made
    /\ LET c == ApplyOptions([config |-> DefaultConfig, context |-> EmptyContext], opts)
       IN client' = [NoClient EXCEPT !.made = TRUE, !.config = c.config,
                                     !.context = c.context, !.original = c.config,
                                     !.originalContext = c.context]
    /\ UNCHANGED <<bridgeVars, pk, loopback, roundTrip, duration>>

(***************************************************************************)
(* The call options.  r is [request, heap]: the CallRequest being built    *)
(* and the TemplateContext values its pointer can reach.                   *)
(***************************************************************************)
WithCallSystemPrompt(prompt) ==
    [option |-> "WithCallSystemPrompt", s |-> prompt, b |-> FALSE, args |-> <<>>]
WithCallPriorCallId(callId) ==
    [option |-> "WithCallPriorCallId", s |-> callId, b |-> FALSE, args |-> <<>>]
WithCallEnableGreetingPrompt(enable) ==
    [option |-> "WithCallEnableGreetingPrompt", s |-> "", b |-> enable, args |-> <<>>]
WithTemplateUserFirstname(firstname) ==
    [option |-> "WithTemplateUserFirstname", s |-> firstname, b |-> FALSE, args |-> <<>>]
WithTemplateLastCallTranscript(transcript) ==
    [option |-> "WithTemplateLastCallTranscript", s |-> transcript, b |-> FALSE,
     args |-> <<>>]
WithCallAgentID(agentID) ==
    [option |-> "WithCallAgentID", s |-> agentID, b |-> FALSE, args |-> <<>>]
WithCallModel(model) ==
    [option |-> "WithCallModel", s |-> model, b |-> FALSE, args |-> <<>>]
WithCallVoice(voice) ==
    [option |-> "WithCallVoice", s |-> voice, b |-> FALSE, args |-> <<>>]
WithCallFirstSpeaker(speaker) ==
    [option |-> "WithCallFirstSpeaker", s |-> speaker, b |-> FALSE, args |-> <<>>]
WithCallLanguageHint(languageHint) ==
    [option |-> "WithCallLanguageHint", s |-> languageHint, b |-> FALSE, args |-> <<>>]
WithCallInitialOutputMedium(medium) ==
    [option |-> "WithCallInitialOutputMedium", s |-> medium, b |-> FALSE, args |-> <<>>]
WithCallRecordingEnabled(enabled) ==
    [option |-> "WithCallRecordingEnabled", s |-> "", b |-> enabled, args |-> <<>>]

\* The duration options, made with a duration in whole seconds.
WithCallJoinTimeout(timeout) ==
    [option |-> "WithCallJoinTimeout", s |-> "", b |-> FALSE, args |-> <<timeout>>]
WithCallMaxDuration(maxDuration) ==
    [option |-> "WithCallMaxDuration", s |-> "", b |-> FALSE, args |-> <<maxDuration>>]

\* WithTemplateContext(ctx): ctx is <<>> when nil and <<v>> when it points to
\* the caller's value v.
WithTemplateContext(ctx) ==
    [option |-> "WithTemplateContext", s |-> "", b |-> FALSE, args |-> <<ctx>>]

\* The medium options; args are the arguments the option was made with.
MediumOption(name, args) == [option |-> name, s |-> "", b |-> FALSE, args |-> args]
WithCallMedium(medium) == MediumOption("WithCallMedium", <<medium>>)
WithCallWebSocketMedium(inputRate, outputRate) ==
    MediumOption("WithCallWebSocketMedium", <<inputRate, outputRate>>)
WithCallWebSocketMediumBuffered(inputRate, outputRate, bufferSizeMs) ==
    MediumOption("WithCallWebSocketMediumBuffered", <<inputRate, outputRate, bufferSizeMs>>)
WithCallWebRTCMedium == MediumOption("WithCallWebRTCMedium", <<>>)
WithCallTwilioMedium == MediumOption("WithCallTwilioMedium", <<>>)
WithCallTelnyxMedium == MediumOption("WithCallTelnyxMedium", <<>>)
WithCallPlivoMedium == MediumOption("WithCallPlivoMedium", <<>>)
WithCallExotelMedium == MediumOption("WithCallExotelMedium", <<>>)
WithCallSIPOutgoing(to, from, username, password) ==
    MediumOption("WithCallSIPOutgoing", <<to, from, username, password>>)
WithCallSIPIncoming == MediumOption("WithCallSIPIncoming", <<>>)

\* A medium option that sets its transport in the medium the request
\* already has.
MergeMedium(r, transport, v) ==
    IF r.request.Medium = <<>>
    THEN [r EXCEPT !.request.Medium = <<[ZeroCallMedium EXCEPT ![transport] = <<v>>]>>]
    ELSE [r EXCEPT !.request.Medium = <<[r.request.Medium[1] EXCEPT ![transport] = <<v>>]>>]

\* r.Medium = &CallMedium{transport: &v}
NewMedium(r, transport, v) ==
    [r EXCEPT !.request.Medium = <<[ZeroCallMedium EXCEPT ![transport] = <<v>>]>>]

\* if r.TemplateContext == nil { r.TemplateContext = &TemplateContext{} }
EnsureContext(r) ==
    IF r.request.TemplateContext = NilContext
    THEN [request |-> [r.request EXCEPT !.TemplateContext = CallContext],
          heap |-> [r.heap EXCEPT ![CallContext] = EmptyContext]]
    ELSE r

ApplyCallOption(r, opt) ==
    CASE opt.option = "WithCallSystemPrompt" -> [r EXCEPT !.request.SystemPrompt = opt.s]
      [] opt.option = "WithCallPriorCallId" -> [r EXCEPT !.request.PriorCallId = opt.s]
      [] opt.option = "WithCallEnableGreetingPrompt" ->
           [r EXCEPT !.request.EnableGreetingPrompt = opt.b]
      [] opt.option = "WithCallAgentID" -> [r EXCEPT !.request.AgentID = opt.s]
      [] opt.option = "WithCallModel" -> [r EXCEPT !.request.Model = opt.s]
      [] opt.option = "WithCallVoice" -> [r EXCEPT !.request.Voice = opt.s]
      [] opt.option = "WithCallFirstSpeaker" -> [r EXCEPT !.request.FirstSpeaker = opt.s]
      [] opt.option = "WithCallLanguageHint" -> [r EXCEPT !.request.LanguageHint = opt.s]
      [] opt.option = "WithCallInitialOutputMedium" ->
           [r EXCEPT !.request.InitialOutputMedium = opt.s]
      [] opt.option = "WithCallRecordingEnabled" ->
           [r EXCEPT !.request.RecordingEnabled = opt.b]
      [] opt.option = "WithCallJoinTimeout" -> [r EXCEPT !.request.JoinTimeout = opt.args[1]]
      [] opt.option = "WithCallMaxDuration" -> [r EXCEPT !.request.MaxDuration = opt.args[1]]
      [] opt.option = "WithTemplateContext" ->
           IF opt.args[1] = <<>>
           THEN [r EXCEPT !.request.TemplateContext = NilContext]
           ELSE [request |-> [r.request EXCEPT !.TemplateContext = CallerContext],
                 heap |-> [r.heap EXCEPT ![CallerContext] = opt.args[1][1]]]
      [] opt.option = "WithCallMedium" -> [r EXCEPT !.request.Medium = opt.args[1]]
      [] opt.option = "WithCallWebSocketMedium" ->
           NewMedium(r, "ServerWebSocket", WebSocketMedium(opt.args[1], opt.args[2]))
      [] opt.option = "WithCallWebSocketMediumBuffered" ->
           NewMedium(r, "ServerWebSocket",
               [WebSocketMedium(opt.args[1], opt.args[2])
                   EXCEPT !.ClientBufferSizeMs = opt.args[3]])
      [] opt.option = "WithCallWebRTCMedium" -> NewMedium(r, "WebRTC", EmptyStruct)
      [] opt.option = "WithCallTwilioMedium" -> NewMedium(r, "Twilio", EmptyStruct)
      [] opt.option = "WithCallTelnyxMedium" -> NewMedium(r, "Telnyx", EmptyStruct)
      [] opt.option = "WithCallPlivoMedium" -> NewMedium(r, "Plivo", EmptyStruct)
      [] opt.option = "WithCallExotelMedium" -> NewMedium(r, "Exotel", EmptyStruct)
      [] opt.option = "WithCallSIPOutgoing" ->
           NewMedium(r, "SIP",
               [ZeroSIPMedium EXCEPT !.Outgoing =
                   <<[To |-> opt.args[1], From |-> opt.args[2],
                      Username |-> opt.args[3], Password |-> opt.args[4]]>>])
      [] opt.option = "WithCallSIPIncoming" ->
           NewMedium(r, "SIP", [ZeroSIPMedium EXCEPT !.Incoming = <<EmptyStruct>>])
      [] opt.option = "WithTemplateUserFirstname" ->
           LET e == EnsureContext(r)
           IN [e EXCEPT !.heap[e.request.TemplateContext].UserFirstname = opt.s]
      [] opt.option = "WithTemplateLastCallTranscript" ->
           LET e == EnsureContext(r)
           IN [e EXCEPT !.heap[e.request.TemplateContext].LastCallTranscript = opt.s]
      [] OTHER -> r

RECURSIVE ApplyCallOptions(_, _)
ApplyCallOptions(r, opts) ==
    IF opts = <<>> THEN r
    ELSE ApplyCallOptions(ApplyCallOption(r, Head(opts)), Tail(opts))

\* The request Call starts from: the sixteen members it copies from
\* c.config, the pointer to the template context among them; every other
\* member is zero.
RequestFromConfig(config) ==
    [ZeroRequest EXCEPT
        !.SystemPrompt = config.CallRequest.SystemPrompt,
        !.Model = config.CallRequest.Model,
        !.Voice = config.CallRequest.Voice,
        !.LanguageHint = config.CallRequest.LanguageHint,
        !.MaxDuration = config.CallRequest.MaxDuration,
        !.JoinTimeout = config.CallRequest.JoinTimeout,
        !.FirstSpeaker = config.CallRequest.FirstSpeaker,
        !.InitialOutputMedium = config.CallRequest.InitialOutputMedium,
        !.RecordingEnabled = config.CallRequest.RecordingEnabled,
        !.Medium = config.CallRequest.Medium,
        !.TemplateContext = config.CallRequest.TemplateContext]

\* The members json.Marshal(request) writes: every member is omitempty, and
\* AgentID is never written.
MarshalMembers(request) ==
    {n \in {"systemPrompt", "model", "voice", "languageHint", "firstSpeaker",
            "initialOutputMedium", "priorCallId"} :
        CASE n = "systemPrompt" -> request.SystemPrompt # ""
          [] n = "model" -> request.Model # ""
          [] n = "voice" -> request.Voice # ""
          [] n = "languageHint" -> request.LanguageHint # ""
          [] n = "firstSpeaker" -> request.FirstSpeaker # ""
          [] n = "initialOutputMedium" -> request.InitialOutputMedium # ""
          [] OTHER -> request.PriorCallId # ""}
    \cup (IF request.JoinTimeout # 0 THEN {"joinTimeout"} ELSE {})
    \cup (IF request.MaxDuration # 0 THEN {"maxDuration"} ELSE {})
    \cup (IF request.RecordingEnabled THEN {"recordingEnabled"} ELSE {})
    \cup (IF request.EnableGreetingPrompt THEN {"enableGreetingPrompt"} ELSE {})
    \cup (IF request.TemplateContext # NilContext THEN {"templateContext"} ELSE {})
    \cup (IF request.Medium # <<>> THEN {"medium"} ELSE {})

\* buildCallURL, as the pieces it joins.
buildCallURL(config, req) ==
    IF req.AgentID # ""
    THEN <<config.APIBaseURL, "/agents/", req.AgentID, "/calls">>
    ELSE <<config.APIBaseURL, "/calls">>

\* The URL of the request: buildCallURL and the query parameters.
CallURLGreetingLast(config, request) ==
    LET base == buildCallURL(config, request)
        prior == IF request.PriorCallId # ""
                 THEN base \o <<"?priorCallId=", request.PriorCallId>> ELSE base
    IN IF request.EnableGreetingPrompt
       THEN prior \o <<"?enableGreetingPrompt=true">>
       ELSE prior

CallURL(config, request) ==
    LET base == buildCallURL(config, request)
        greeting == IF request.EnableGreetingPrompt
                    THEN base \o <<"?enableGreetingPrompt=true">> ELSE base
        hasParams == request.EnableGreetingPrompt
    IN IF request.PriorCallId # ""
       THEN greeting \o <<(IF hasParams THEN "&priorCallId=" ELSE "?priorCallId="),
                          request.PriorCallId>>
       ELSE greeting

(***************************************************************************)
(* The response of the API: what c.http.Do returns, and what               *)
(* json.NewDecoder(resp.Body).Decode(&callResp) makes of the body.         *)
(***************************************************************************)
CallID123 == "call-123"
JoinURL123 == "wss://example.com/join/call-123"
BodyCreated ==
    "{\"callId\": \"call-123\", \"joinUrl\": \"wss://example.com/join/call-123\", \"created\": \"2023-05-20T12:34:56Z\", \"maxDuration\": \"3600s\", \"joinTimeout\": \"300s\"}"
BodyError == "{\"error\": \"Something went wrong\"}"
BodyInvalid == "{invalid json}"
BodyMissingJoinURL == "{\"callId\": \"call-123\"}"
BodyEmpty == ""
BodyArray == "[]"
BodyBadDuration ==
    "{\"callId\": \"call-123\", \"joinUrl\": \"wss://example.com/join/call-123\", \"maxDuration\": \"soon\"}"
BodyTrailing ==
    "{\"callId\": \"call-123\", \"joinUrl\": \"wss://example.com/join/call-123\"} {invalid json}"
Bodies == {BodyCreated, BodyError, BodyInvalid, BodyMissingJoinURL, BodyEmpty, BodyArray,
           BodyBadDuration, BodyTrailing}

\* Whether the whole body is one JSON document.
ValidJSON(body) ==
    body \in {BodyCreated, BodyError, BodyMissingJoinURL, BodyArray, BodyBadDuration}

\* Decode(&callResp): the decoder reads the first JSON value of the body and
\* leaves what follows it unread; the value must be an object whose known
\* members have the types of Call, a duration member one parseDuration takes.
DecodeCall(body) ==
    CASE body = BodyCreated -> [err |-> FALSE, CallID |-> CallID123, JoinURL |-> JoinURL123]
      [] body = BodyTrailing -> [err |-> FALSE, CallID |-> CallID123, JoinURL |-> JoinURL123]
      [] body = BodyError -> [err |-> FALSE, CallID |-> "", JoinURL |-> ""]
      [] body = BodyMissingJoinURL -> [err |-> FALSE, CallID |-> CallID123, JoinURL |-> ""]
      [] OTHER -> [err |-> TRUE, CallID |-> "", JoinURL |-> ""]

StatusCodes == {199, 299, 300, 500}
HttpOutcomes ==
    {[err |-> TRUE, StatusCode |-> 0, Body |-> ""]}
    \cup {[err |-> FALSE, StatusCode |-> c, Body |-> BodyCreated] : c \in StatusCodes}
    \cup {[err |-> FALSE, StatusCode |-> 200, Body |-> b] : b \in Bodies}

CallOptionChoices ==
    {WithCallSystemPrompt("Override prompt"),
     WithCallPriorCallId("prior-call-123"),
     WithCallEnableGreetingPrompt(TRUE), WithTemplateUserFirstname("Bob"),
     WithTemplateLastCallTranscript("bye"), WithCallAgentID("agent-7")}
\* The options of the package's tests and of the example, and the remaining
\* options that set a member the model keeps.
TestCallOptions ==
    <<WithCallSystemPrompt("Override prompt"), WithCallModel("override-model"),
      WithCallVoice("override-voice"), WithCallFirstSpeaker(FirstSpeakerUser),
      WithCallWebSocketMedium(24000, 24000), WithCallRecordingEnabled(TRUE)>>
ExampleCallOptions ==
    <<WithCallSystemPrompt("You are a helpful assistant."), WithCallMaxDuration(5 * 60),
      WithCallRecordingEnabled(FALSE),
      WithCallWebSocketMedium(DefaultInputSampleRate, DefaultOutputSampleRate)>>
OtherCallOptions ==
    <<WithCallJoinTimeout(60), WithCallLanguageHint("en"),
      WithCallInitialOutputMedium(OutputMediumText),
      WithTemplateContext(<<[EmptyContext EXCEPT !.UserFirstname = "Cid"]>>),
      WithTemplateLastCallTranscript("bye"),
      WithCallWebSocketMediumBuffered(16000, 16000, 60)>>
CallOptionLists ==
    {<<>>, TestCallOptions, ExampleCallOptions, OtherCallOptions,
     <<WithTemplateUserFirstname("Bob"), WithTemplateContext(<<>>)>>,
     <<WithCallPriorCallId("prior\ncall-123")>>}
           \cup {<<a>> : a \in CallOptionChoices}
           \cup {<<a, b>> : a \in CallOptionChoices, b \in CallOptionChoices}

\* The texts among the model's inputs that hold an ASCII control character
\* (a line feed).
WithControlCharacter == {"prior\ncall-123", "agent\n9"}

\* What Call returns once c.http.Do has returned.
CallResult(response) ==
    LET callResp == DecodeCall(response.Body)
    IN CASE response.err -> [call |-> NoCall, err |-> "API request failed"]
         [] response.StatusCode < 200 \/ response.StatusCode >= 300 ->
              [call |-> NoCall, err |-> "API returned non-success status"]
         [] callResp.err -> [call |-> NoCall, err |-> "failed to decode API response"]
         [] callResp.JoinURL = "" ->
              [call |-> NoCall, err |-> "API did not return a valid join URL"]
         [] OTHER -> [call |-> [nil |-> FALSE, CallID |-> callResp.CallID,
                                JoinURL |-> callResp.JoinURL],
                      err |-> ""]

\* The client when Call, run with the options opts, has returned an error
\* before sending anything or has handed its request to c.http.Do and waits
\* there (pending).  http.NewRequestWithContext(ctx, http.MethodPost, url,
\* body) fails when url.Parse refuses the URL (newRequestErr): the URLs here
\* are joined from the base URLs of ClientOptions, the endpoint and query
\* pieces and the ids of the options, and of those url.Parse refuses the ones
\* with a control character in them.
CallOutcome(opts) ==
       LET heap == [a \in {ConfigContext, CallContext, CallerContext} |->
                       IF a = ConfigContext THEN client.context ELSE EmptyContext]
           r == ApplyCallOptions([request |-> RequestFromConfig(client.config),
                                  heap |-> heap], opts)
           url == CallURL(client.config, r.request)
           newRequestErr == \E i \in 1..Len(url) : url[i] \in WithControlCharacter
           sent == [sent |-> TRUE,
                    url |-> url,
                    apiKey |-> client.config.APIKey,
                    members |-> MarshalMembers(r.request),
                    body |-> r.request,
                    context |-> IF r.request.TemplateContext = NilContext
                                THEN EmptyContext ELSE r.heap[r.request.TemplateContext]]
           returned == [client EXCEPT !.calls = @ + 1, !.opts = opts,
                                      !.response = NoResponse,
                                      !.context = r.heap[ConfigContext],
                                      !.request = NoRequest, !.call = NoCall]
       IN IF client.config.APIKey = ""
          THEN [returned EXCEPT !.err = "API key is required"]
          ELSE IF newRequestErr
          THEN [returned EXCEPT !.err = "failed to create HTTP request"]
          ELSE [returned EXCEPT !.request = sent, !.err = "", !.pending = TRUE]

\* Client.Call with the options opts, up to its return with an error or to
\* c.http.Do(req).
Call(opts) ==
    /\ client.made
    /\ ~client.pending
    /\ client.calls < MaxCalls
    /\ client' = [CallOutcome(opts) EXCEPT !.method = "Call", !.agentID = ""]
    /\ UNCHANGED <<bridgeVars, pk, loopback, roundTrip, duration>>

\* Client.CallAgent: WithCallAgentID(agentID) appended to the options, then
\* Call.
CallAgent(agentID, opts) ==
    /\ client.made
    /\ ~client.pending
    /\ client.calls < MaxCalls
    /\ client' = [CallOutcome(Append(opts, WithCallAgentID(agentID)))
                     EXCEPT !.method = "CallAgent", !.agentID = agentID]
    /\ UNCHANGED <<bridgeVars, pk, loopback, roundTrip, duration>>

\* c.http.Do(req) returns, with an error or with the API's response, and
\* Call goes on to its return.
Do(response) ==
    /\ client.pending
    /\ client' = [client EXCEPT !.pending = FALSE, !.response = response,
                                !.call = CallResult(response).call,
                                !.err = CallResult(response).err]
    /\ UNCHANGED <<bridgeVars, pk, loopback, roundTrip, duration>>

\* The agent ids given to CallAgent, and the options given with them.
AgentIDs == {"agent-9", "", "agent\n9"}
AgentOptionLists ==
    {<<>>, <<WithCallAgentID("agent-7")>>, <<WithCallPriorCallId("prior-call-123")>>,
     <<WithCallAgentID("agent-7"), WithCallEnableGreetingPrompt(TRUE)>>}
AgentResponses == {r \in HttpOutcomes : r.StatusCode \in {200, 500} /\ r.Body = BodyCreated}

\* A client, its calls and its agent calls.
NextAgent ==
    \/ \E opts \in ClientOptions : NewClient(opts)
    \/ \E opts \in AgentOptionLists : Call(opts)
    \/ \E agentID \in AgentIDs, opts \in AgentOptionLists : CallAgent(agentID, opts)
    \/ \E response \in AgentResponses : Do(response)

SpecAgent == Init /\ [][NextAgent]_vars

\* The medium options given to Call: the nine that select a transport, and
\* WithCallMedium with nil and with a medium of two transports.
MaxOptions == 2
MediumChoices ==
    {WithCallWebSocketMedium(16000, 16000), WithCallWebRTCMedium, WithCallTwilioMedium,
     WithCallTelnyxMedium, WithCallPlivoMedium, WithCallExotelMedium,
     WithCallSIPOutgoing("sip:user@example.com", "sip:agent@ultravox.ai",
                         "username", "password"),
     WithCallSIPIncoming,
     WithCallWebSocketMediumBuffered(16000, 16000, 60),
     WithCallMedium(<<>>),
     WithCallMedium(<<[ZeroCallMedium EXCEPT !.WebRTC = <<EmptyStruct>>,
                                            !.Twilio = <<EmptyStruct>>]>>)}
MediumOptionLists == UNION {[1..n -> MediumChoices] : n \in 0..MaxOptions}
MediumResponses == {r \in HttpOutcomes : r.StatusCode = 200 /\ r.Body = BodyCreated}

\* A client and its first call, made with medium options.
NextMedium ==
    \/ \E opts \in ClientOptions : NewClient(opts)
    \/ /\ client.calls = 0
       /\ \E opts \in MediumOptionLists : Call(opts)
    \/ \E response \in MediumResponses : Do(response)

SpecMedium == Init /\ [][NextMedium]_vars

NextClient ==
    \/ \E opts \in ClientOptions : NewClient(opts)
    \/ \E opts \in CallOptionLists : Call(opts)
    \/ \E response \in HttpOutcomes : Do(response)

SpecClient == Init /\ [][NextClient]_vars

(***************************************************************************)
(* UltravoxDuration through JSON: a duration marshalled and the text read  *)
(* back, and a number n read as the JSON number n, the JSON string n and   *)
(* the JSON string ns.                                                     *)
(***************************************************************************)
MaxSeconds == 6

\* Every tenth of a second up to MaxSeconds, the durations of the package's
\* defaults and tests, some very short and very long ones, some whose
\* seconds no float64 holds, some below zero and the ends of int64.
Durations ==
    {Duration(sec, tenth * (10 ^ 8)) : sec \in 0..MaxSeconds, tenth \in 0..9}
    \cup {Duration(10, 0), Duration(30, 0), Duration(600, 0), Duration(3600, 0),
          Duration(0, 384 * (10 ^ 6)), Duration(0, 90 * (10 ^ 6)), Duration(0, 100000),
          Duration(0, 50000), Duration(0, 1), Duration(1000000, 5 * (10 ^ 8)),
          Duration(1, 118 * (10 ^ 6)), Duration(1, 140 * (10 ^ 6)),
          Duration(8388608, 1), Duration(16777216, 1),
          Negative(Duration(1, 5 * (10 ^ 8))), Negative(Duration(30, 0)),
          MaxInt64, MinInt64}

\* The numbers n read in three forms, the last one more seconds than an
\* int64 of nanoseconds holds.
Numerals ==
    {<<"0">>, <<"1">>, <<"5">>, <<"1", "0">>, <<"3", "0">>, <<"3", "6", "0", "0">>,
     <<"0", ".", "5">>, <<"0", ".", "1">>, <<"2", ".", "5">>, <<"4", ".", "1">>,
     <<"8", ".", "2">>, <<"1", "6", ".", "4">>,
     <<"1", "0", "0", "0", "0", "0", "0", "0", "0", "0", "0">>}

DurationMarshal(d) ==
    /\ duration.stage = "idle"
    /\ duration' = [duration EXCEPT !.stage = "marshalled", !.d = d, !.json = MarshalJSON(d)]
    /\ UNCHANGED <<bridgeVars, pk, loopback, roundTrip, client>>

DurationUnmarshal(arch) ==
    /\ duration.stage = "marshalled"
    /\ duration' = [duration EXCEPT !.stage = "back", !.arch = arch,
                                    !.back = UnmarshalJSON(duration.json, arch)]
    /\ UNCHANGED <<bridgeVars, pk, loopback, roundTrip, client>>

DurationRead(n, arch) ==
    /\ duration.stage = "idle"
    /\ duration' = [duration EXCEPT !.stage = "read", !.n = n, !.arch = arch,
                                    !.number = UnmarshalJSON(n, arch),
                                    !.numeric = UnmarshalJSON(Quoted(n), arch),
                                    !.seconds = UnmarshalJSON(Quoted(n \o <<"s">>), arch)]
    /\ UNCHANGED <<bridgeVars, pk, loopback, roundTrip, client>>

NextDuration ==
    \/ \E d \in Durations : DurationMarshal(d)
    \/ \E arch \in Architectures : DurationUnmarshal(arch)
    \/ \E n \in Numerals, arch \in Architectures : DurationRead(n, arch)

SpecDuration == Init /\ [][NextDuration]_vars

\* The workers, each over the peers, sessions, tracks, observers and inputs
\* it is given.
Negotiation(P, S) ==
    \/ \E p \in P, outcome \in OfferOutcomes : handleSDPOffer(p, outcome)
    \/ \E p \in P, outcome \in ResponseOutcomes : gatherComplete(p, outcome)
    \/ \E p \in P : IceChecking(p)
    \/ \E p \in P, s \in S : IceConnected(p, s)
    \/ \E p \in P : IceSetActive(p)
    \/ \E p \in P, st \in IceTerminal : IceTerminated(p, st)

\* The negotiation of a peer connection that reports no terminal state.
Connecting(P, S) ==
    \/ \E p \in P, outcome \in OfferOutcomes : handleSDPOffer(p, outcome)
    \/ \E p \in P, outcome \in ResponseOutcomes : gatherComplete(p, outcome)
    \/ \E p \in P : IceChecking(p)
    \/ \E p \in P, s \in S : IceConnected(p, s)
    \/ \E p \in P : IceSetActive(p)

Lifecycle(S) ==
    \/ \E s \in S, ok \in BOOLEAN : startUltravoxConnection(s, ok)
    \/ \E s \in S, ok \in BOOLEAN : Dial(s, ok)
    \/ \E s \in S : ReadError(s)

Audio(S, pcms) ==
    \/ \E s \in S, b \in pcms : ReadBinary(s, b)
    \/ \E s \in S, ok \in BOOLEAN : TrackWrite(s, ok)

Control(S, texts) ==
    \/ \E s \in S, m \in texts : ReadText(s, m)
    \/ \E s \in S, reread \in BOOLEAN, ok \in BOOLEAN : Forward(s, reread, ok)

TrackStart(T) ==
    \/ \E t \in T, m \in TrackCodecs : OnTrack(t, m)
    \/ \E t \in T : InboundStart(t)

Inbound(T) ==
    \/ TrackStart(T)
    \/ \E t \in T, in \in InboundInputs : InboundRead(t, in)
    \/ \E t \in T : InboundFindLock(t)
    \/ \E t \in T : InboundFind(t)
    \/ \E t \in T : InboundDrop(t)
    \/ \E t \in T : InboundLock(t)
    \/ \E t \in T, ok \in BOOLEAN : InboundSend(t, ok)

Observer(O) ==
    \/ \E o \in O, ok \in BOOLEAN : ObserverUpgrade(o, ok)
    \/ \E o \in O : ObserverLock(o)
    \/ \E o \in O : ObserverAttach(o)
    \/ \E o \in O : ObserverReadError(o)
    \/ \E o \in O : ObserverDetach(o)
    \/ \E o \in O : ObserverClose(o)

\* The whole bridge.
Next ==
    \/ Negotiation(Peers, Sessions) \/ Lifecycle(Sessions)
    \/ Audio(Sessions, PcmFrames) \/ Control(Sessions, TextMessages)
    \/ Inbound(Tracks) \/ Observer(Observers)

Spec == Init /\ [][Next]_vars

\* One peer connection, one session and one observer, every kind of frame.
NextRelay ==
    \/ Connecting({1}, {1}) \/ Lifecycle({1})
    \/ Audio({1}, PcmFrames) \/ Control({1}, TextMessages) \/ Observer({1})

SpecRelay == Init /\ [][NextRelay]_vars

\* One peer connection whose sessions follow one another, one observer, one
\* frame of each type.
NextHandover ==
    \/ Negotiation({1}, Sessions) \/ Lifecycle(Sessions)
    \/ Audio(Sessions, {PcmOdd, PcmTwo}) \/ Control(Sessions, {TxtState}) \/ Observer({1})

SpecHandover == Init /\ [][NextHandover]_vars

\* Sessions that follow one another on one peer connection and the start of
\* its remote track, of any codec.
NextHeaders ==
    \/ Negotiation({1}, Sessions) \/ Lifecycle(Sessions)
    \/ Audio(Sessions, {PcmOdd, PcmTwo}) \/ TrackStart({1})

SpecHeaders == Init /\ [][NextHeaders]_vars

\* The peer connections alone: their offers and their ICE callbacks.
NextNegotiation == Negotiation(Peers, Sessions)

SpecNegotiation == Init /\ [][NextNegotiation]_vars

\* One session's voice worker, from its start to its return and the deferred
\* Close and cancel.
NextCancel ==
    \/ Negotiation({1}, {1}) \/ Lifecycle({1}) \/ Audio({1}, {PcmOdd, PcmTwo})

SpecCancel == Init /\ [][NextCancel]_vars

\* One session with its three senders: the packetizer, the relay with its
\* observer, and the inbound media worker.
SendInputs ==
    {in \in InboundInputs :
        in.kind = "packet" /\ in.mimeType = MimeTypePCMU /\ in.payload = <<255>>}

NextSend ==
    \/ Connecting({1}, {1}) \/ Lifecycle({1})
    \/ Audio({1}, {PcmTwo}) \/ Control({1}, {TxtState}) \/ Observer({1})
    \/ OnTrack(1, MimeTypePCMU)
    \/ InboundStart(1)
    \/ \E in \in SendInputs : InboundRead(1, in)
    \/ InboundFindLock(1)
    \/ InboundFind(1)
    \/ InboundDrop(1)
    \/ InboundLock(1)
    \/ \E ok \in BOOLEAN : InboundSend(1, ok)

SpecSend == Init /\ [][NextSend]_vars

\* The inbound media workers of every track of one peer connection, with no
\* session registered: their decoders and their packets.
DecoderInputs ==
    {in \in InboundInputs :
        \/ in.kind = "readError"
        \/ /\ in.kind = "packet" /\ in.payload = <<255>>
           /\ in.mimeType \in {MimeTypeOpus, MimeTypePCMU} /\ ~in.opus.err}

NextDecoders ==
    \/ \E outcome \in OfferOutcomes : handleSDPOffer(1, outcome)
    \/ \E outcome \in ResponseOutcomes : gatherComplete(1, outcome)
    \/ TrackStart(Tracks)
    \/ \E t \in Tracks, in \in DecoderInputs : InboundRead(t, in)
    \/ \E t \in Tracks : InboundFindLock(t)
    \/ \E t \in Tracks : InboundFind(t)
    \/ \E t \in Tracks : InboundDrop(t)

SpecDecoders == Init /\ [][NextDecoders]_vars

\* One session, its control messages and every observer.
NextObservers ==
    \/ Negotiation({1}, {1}) \/ Lifecycle({1})
    \/ Control({1}, {TxtState}) \/ Observer(Observers)

SpecObservers == Init /\ [][NextObservers]_vars

\* Every kind of worker that takes a lock: the ICE callback of one peer
\* connection, the inbound media workers of two tracks and one observer.
NextLocks ==
    \/ Connecting({1}, {1})
    \/ \E ok \in BOOLEAN : startUltravoxConnection(1, ok)
    \/ \E ok \in BOOLEAN : Dial(1, ok)
    \/ Observer({1})
    \/ \E t \in {1, 2} : OnTrack(t, MimeTypePCMU)
    \/ \E t \in {1, 2} : InboundStart(t)
    \/ \E t \in {1, 2}, in \in SendInputs : InboundRead(t, in)
    \/ \E t \in {1, 2} : InboundFindLock(t)
    \/ \E t \in {1, 2} : InboundFind(t)
    \/ \E t \in {1, 2} : InboundDrop(t)
    \/ \E t \in {1, 2} : InboundLock(t)
    \/ \E t \in {1, 2}, ok \in BOOLEAN : InboundSend(t, ok)

SpecLocks == Init /\ [][NextLocks]_vars

\* One session and one observer, with frames of every type: binary, text
\* (malformed, untyped, unrecognized, recognized) and any other.
NextFrames ==
    \/ Negotiation({1}, {1}) \/ Lifecycle({1})
    \/ Audio({1}, {PcmTwo}) \/ Observer({1})
    \/ Control({1}, {TxtMalformed, TxtNoType, TxtPing, TxtState})
    \/ \E messageType \in OtherMessageTypes : ReadOther(1, messageType)

SpecFrames == Init /\ [][NextFrames]_vars

\* One peer connection whose sessions follow one another, and the inbound
\* media worker of its track.
NextInbound == Negotiation({1}, Sessions) \/ Lifecycle(Sessions) \/ Inbound({1})

SpecInbound == Init /\ [][NextInbound]_vars

(***************************************************************************)
(* Claims.                                                                 *)
(***************************************************************************)
\* C1: after N binary frames the sequence counter is N mod 65536 and the
\* timestamp counter is the sum of the N sample counts (floor(len/2) each)
\* mod 2^32; the sequence numbers of consecutive packets differ by 1 mod 65536.
C1_CountersAfterNFrames ==
    /\ pk.sequenceNumber = pk.frames % 65536
    /\ pk.timestamp = <<pk.samples[2], pk.samples[3]>>
    /\ pk.frames >= 1 => pk.header.SequenceNumber = (pk.frames - 1) % 65536
    /\ pk.frames >= 2 =>
          pk.header.SequenceNumber = (pk.previous.SequenceNumber + 1) % 65536

\* C1's case: both counters have wrapped (more than 65536 frames, more than
\* 2^32 samples) and frames follow.
C1_Witness ==
    /\ pk.frames = 65538 /\ pk.sequenceNumber = 2
    /\ pk.samples[1] >= 1 /\ pk.header.SequenceNumber = 1 /\ pk.previous.SequenceNumber = 0

(***************************************************************************)
(* Helpers of the claims below.                                            *)
(***************************************************************************)
\* The number of binary frames among the frames read.
BinaryCount(in) == Cardinality({i \in 1..Len(in) : in[i].messageType = "BinaryMessage"})

\* The samples of the binary frames read: floor(len/2) each.
SampleSum(in) ==
    LET F[n \in 0..Len(in)] == IF n = 0 THEN 0 ELSE F[n - 1] + (Len(in[n].pcm) \div 2)
    IN F[Len(in)]

\* The positions of the voice worker, by the state of the spec's state machine.
Dialing == {"call", "dial"}
Connected == {"read", "write", "forward"}

\* The step reads text m as session s's next frame.
ReadsText(s, m) ==
    uvIn'[s] = Append(uvIn[s], [messageType |-> "TextMessage", pcm |-> <<>>, text |-> m])

\* The lines of a log with the given format.
Lines(log, format) == {i \in 1..Len(log) : log[i].format = format}

\* The frames read that carry text m.
TextsRead(in, m) == {i \in 1..Len(in) : in[i].messageType = "TextMessage" /\ in[i].text = m}

\* The messages written to the observers, whatever the outcome of the write.
Mirrored == UNION {{clientOut[o][i].message : i \in 1..Len(clientOut[o])} : o \in Observers}

\* The messages an observer received.
Delivered ==
    UNION {{clientOut[o][i].message : i \in {j \in 1..Len(clientOut[o]) : clientOut[o][j].ok}} :
              o \in Observers}

\* The codecs handleIncomingAudio can decode.
Supported == {MimeTypeOpus, MimeTypePCMA, MimeTypePCMU}

\* The buffers written to the voice connections: <<session, position>>.
Written == {<<c, i>> \in Sessions \X (1..(MaxPackets * MaxTracks)) : i <= Len(uvOut[c])}

\* C2: every session's counters start at 0 and count its own frames only:
\* in every state, each session whose loop has started has a sequence counter
\* equal to the number of binary frames that loop has read (mod 65536) and a
\* timestamp equal to the samples of those frames, whatever any other session
\* has read.
C2_CountersPerSession ==
    \A s \in Sessions :
        IF uvLoop[s].pc \in Connected \cup {"closed"}
        THEN /\ uvLoop[s].sequenceNumber = BinaryCount(uvIn[s]) % 65536
             /\ uvLoop[s].timestamp = <<0, SampleSum(uvIn[s])>>
        ELSE uvIn[s] = <<>>

\* C2's case: session 2 is connected with counters 0 while session 1, still
\* connected, has sent a packet.
C2_Witness ==
    /\ uvLoop[1].pc = "read" /\ uvLoop[1].sequenceNumber = 1 /\ uvLoop[1].timestamp = <<0, 2>>
    /\ uvLoop[2].pc = "read" /\ uvLoop[2].sequenceNumber = 0 /\ uvLoop[2].timestamp = <<0, 0>>

\* C3: the registry is one slot, last writer wins: whenever no set is under
\* way the slot holds the argument of the last completed set (none before the
\* first), and every find returns exactly that.
C3_LastWriterWins ==
    /\ [](activeUltravoxLock[1] # "ice" => activeUltravoxConnection = lastSet)
    /\ [][\A t \in Tracks :
            (inbound[t].pc = "finding" /\ inbound'[t].pc = "found")
                => inbound'[t].activeUVConn = lastSet]_vars

\* C3's case: after set(1) then set(2), a find has returned 2.
C3_Witness ==
    \E t \in Tracks : inbound[t].pc = "found" /\ inbound[t].activeUVConn = 2 /\ lastSet = 2

\* C4: a voice worker goes Dialing -> Connected -> Closed and nowhere else:
\* it starts at a connected event's set, Connected is entered from the dial
\* alone, Closed from a read of a connected loop, a read error always closes,
\* and a closed loop never moves or reads again.
C4_LoopStateMachine ==
    [][\A s \in Sessions :
         LET a == uvLoop[s].pc
             b == uvLoop'[s].pc
         IN /\ (a = "none" /\ b # "none") =>
                  (b = "call" /\ \E p \in Peers : iceCallback[p] = [pc |-> "set", uvConn |-> s])
            /\ (a \in Dialing /\ b # a) => (a = "call" /\ b = "dial") \/ (a = "dial" /\ b = "read")
            /\ (a \notin Connected /\ b \in Connected) =>
                  (a = "dial" /\ uvConn[s].wsConn = "nil" /\ uvConn'[s].wsConn = "open")
            /\ (a \in Connected /\ b \notin Connected) => (a = "read" /\ b = "closed")
            /\ Lines(uvLog'[s], "WebSocket read error: %v") # Lines(uvLog[s], "WebSocket read error: %v")
                  => (a = "read" /\ b = "closed")
            /\ a = "closed" => (b = "closed" /\ uvIn'[s] = uvIn[s]
                                /\ uvConn'[s].wsConn = "closed")]_vars

\* C4's case: session 1's loop has closed and a new session's loop is connected.
C4_Witness == uvLoop[1].pc = "closed" /\ uvLoop[2].pc = "read" /\ Len(uvIn[2]) = 1

\* C5: reading the text {not valid json changes neither the observers' output,
\* nor the counters, nor the audio track; it is logged, and the loop is at its
\* next read.
C5_MalformedDropped ==
    [][\A s \in Sessions :
         ReadsText(s, "{not valid json") =>
            /\ clientOut' = clientOut /\ trackOut' = trackOut /\ process' = process
            /\ uvLoop'[s] = uvLoop[s] /\ uvLoop'[s].pc = "read"
            /\ uvConn'[s].wsConn = "open"
            /\ uvLog'[s] = uvLog[s] \o <<[format |-> "Error parsing JSON: %v", a |-> "", b |-> ""],
                                         [format |-> "%s", a |-> "{not valid json", b |-> ""]>>]_vars

\* C5's case: with an observer attached, the malformed frame left nothing and
\* the frame after it was handled and mirrored.
C5_Witness ==
    /\ uvLoop[1].pc = "read" /\ Len(uvIn[1]) = 2
    /\ uvIn[1][1].text = "{not valid json" /\ uvIn[1][2].text = TxtState
    /\ Len(clientOut[1]) = 1 /\ clientOut[1][1].message = TxtState /\ clientOut[1][1].ok

\* C6 as claimed: no text without a recognized type (missing, not a string,
\* or an unknown string) is ever delivered to an observer.
C6_Original == Delivered \cap {TxtNoType, TxtNumType, TxtPing} = {}

\* C6 as amended: a text whose type is missing or no string is logged and
\* dropped, the loop at its next read; a text whose type is an unknown string
\* is forwarded to the observer the session holds like any typed event, and
\* logged as unknown once forwarded.
C6_UntypedDropped ==
    /\ [](Mirrored \cap {TxtNoType, TxtNumType} = {})
    /\ [][\A s \in Sessions :
            /\ \A m \in {TxtNoType, TxtNumType} :
                 ReadsText(s, m) =>
                    /\ clientOut' = clientOut /\ uvLoop'[s] = uvLoop[s] /\ uvLoop'[s].pc = "read"
                    /\ uvLog'[s] = Append(uvLog[s], [format |-> "Unknown JSON message: %s",
                                                     a |-> m, b |-> ""])
            /\ (ReadsText(s, TxtPing) /\ uvConn[s].clientWs # 0) =>
                    (uvLoop'[s].pc = "forward" /\ uvLoop'[s].message = TxtPing)
            /\ (uvLoop[s].pc = "forward" /\ uvLoop[s].message = TxtPing
                /\ uvLoop'[s].pc = "read") =>
                    /\ \E o \in Observers :
                         /\ Len(clientOut'[o]) = Len(clientOut[o]) + 1
                         /\ clientOut'[o][Len(clientOut'[o])].message = TxtPing
                    /\ Lines(uvLog'[s], "Received unknown event type: %s")
                          # Lines(uvLog[s], "Received unknown event type: %s")]_vars

\* C6's case: a text without a type was dropped and a ping after it mirrored.
C6_Witness ==
    /\ uvLoop[1].pc = "read" /\ Len(uvIn[1]) = 2
    /\ uvIn[1][1].text = TxtNoType /\ uvIn[1][2].text = TxtPing
    /\ Len(clientOut[1]) = 1 /\ clientOut[1][1].message = TxtPing /\ clientOut[1][1].ok

\* C7 as claimed: a typed control message read by a session while an observer
\* is connected (its handler past the attach, in its read loop) is forwarded,
\* whether the observer connected before or after the session was registered.
C7_Original ==
    [][\A s \in Sessions :
         (ReadsText(s, TxtState) /\ \E o \in Observers : observer[o].pc = "read")
            => uvLoop'[s].pc = "forward"]_vars

\* C8: a local transcript line is logged for the final transcripts handled and
\* for nothing else, and a partial transcript is forwarded like a final one.
C8_FinalTranscriptsLogged ==
    /\ [](\A s \in Sessions :
            /\ Cardinality(Lines(uvLog[s], "Transcript [%s]: %s"))
                 = Cardinality(TextsRead(uvIn[s], TxtFinal))
                   - (IF uvLoop[s].pc = "forward" /\ uvLoop[s].message = TxtFinal THEN 1 ELSE 0)
            /\ \A i \in Lines(uvLog[s], "Transcript [%s]: %s") :
                 uvLog[s][i].a = "agent" /\ uvLog[s][i].b = "hello")
    /\ [][\A s \in Sessions : \A m \in {TxtFinal, TxtPartial} :
            /\ (ReadsText(s, m) /\ uvConn[s].clientWs # 0) =>
                  (uvLoop'[s].pc = "forward" /\ uvLoop'[s].message = m)
            /\ (uvLoop[s].pc = "forward" /\ uvLoop[s].message = m /\ uvLoop'[s].pc = "read") =>
                  \E o \in Observers :
                     /\ Len(clientOut'[o]) = Len(clientOut[o]) + 1
                     /\ clientOut'[o][Len(clientOut'[o])].message = m]_vars

\* C8's case: a partial and a final transcript were both mirrored, and one
\* transcript line was logged.
C8_Witness ==
    /\ uvLoop[1].pc = "read" /\ Len(uvIn[1]) = 2
    /\ uvIn[1][1].text = TxtPartial /\ uvIn[1][2].text = TxtFinal
    /\ Len(clientOut[1]) = 2 /\ clientOut[1][1].message = TxtPartial
    /\ clientOut[1][2].message = TxtFinal
    /\ Cardinality(Lines(uvLog[1], "Transcript [%s]: %s")) = 1

\* C9 as claimed: an unsupported codec costs one packet and never the read
\* loop: a track worker ends on a read error and on nothing else.
C9_Original ==
    \A t \in Tracks :
        inbound[t].pc = "ended" =>
            /\ inbound[t].log # <<>>
            /\ inbound[t].log[Len(inbound[t].log)].format = "Error reading from track: %v"

\* C10: a decoded buffer is forwarded by one registry lookup and at most one
\* write: the write goes to the session that lookup found in the registry and
\* whose voice connection was set; a lookup that finds no session, or one not
\* yet dialled, drops the buffer, which is kept nowhere and written never.
C10_ForwardOnceOrDrop ==
    /\ [](/\ \A v, w \in Written :
               (uvOut[v[1]][v[2]].track = uvOut[w[1]][w[2]].track
                /\ uvOut[v[1]][v[2]].read = uvOut[w[1]][w[2]].read) => v = w
          /\ \A w \in Written : \A t \in Tracks :
               (uvOut[w[1]][w[2]].track = t /\ uvOut[w[1]][w[2]].read = inbound[t].reads)
                  => inbound[t].pc \in {"read", "ended"}
          /\ \A t \in Tracks :
               inbound[t].pc \in {"read", "ended"}
                  => (inbound[t].pcmData = <<>> /\ inbound[t].activeUVConn = 0))
    /\ [][/\ \A t \in Tracks :
              /\ (inbound[t].pc = "finding" /\ inbound'[t].pc # "finding")
                    => /\ inbound'[t].pc = "found" /\ uvOut' = uvOut
                       /\ inbound'[t].activeUVConn = activeUltravoxConnection
              /\ (inbound[t].pc = "found" /\ inbound'[t].pc # "found")
                    => LET c == inbound[t].activeUVConn
                       IN IF c = 0 \/ uvConn[c].wsConn = "nil"
                          THEN inbound'[t].pc = "read" /\ uvOut' = uvOut
                          ELSE inbound'[t].pc = "send" /\ uvOut' = uvOut
                               /\ inbound'[t].activeUVConn = c
          /\ uvOut' # uvOut =>
                \E t \in Tracks :
                   LET c == inbound[t].activeUVConn
                   IN /\ inbound[t].pc = "send" /\ inbound'[t].pc = "read"
                      /\ c # 0 /\ uvConn[c].wsConn # "nil"
                      /\ Len(uvOut'[c]) = Len(uvOut[c]) + 1
                      /\ uvOut'[c][Len(uvOut'[c])].pcmData = inbound[t].pcmData
                      /\ uvOut'[c][Len(uvOut'[c])].read = inbound[t].reads
                      /\ \A i \in 1..Len(uvOut[c]) : uvOut'[c][i] = uvOut[c][i]
                      /\ \A d \in Sessions \ {c} : uvOut'[d] = uvOut[d]]_vars

\* C10's case: the first buffer was decoded before the session's voice
\* connection was dialled and dropped; the connection, set since, received
\* the second buffer alone.
C10_Witness ==
    \E t \in Tracks :
        /\ inbound[t].pc = "read" /\ inbound[t].reads = 2 /\ inbound[t].log = <<>>
        /\ uvLoop[1].pc = "read"
        /\ Len(uvOut[1]) = 1 /\ uvOut[1][1].read = 2 /\ uvOut[1][1].ok
        /\ uvOut[2] = <<>>

\* The packets session s has handed to its audio track, in the track's order.
Packets(s) ==
    LET From(e) == e.session = s
    IN IF uvConn[s].audioTrack = 0 THEN <<>>
       ELSE SelectSeq(trackOut[uvConn[s].audioTrack], From)

\* The binary frames among the frames read, in the order read.
BinaryFrames(in) ==
    LET IsBinary(f) == f.messageType = "BinaryMessage"
    IN SelectSeq(in, IsBinary)

\* The samples of the first n of the binary frames fr.
SamplesBefore(fr, n) ==
    LET F[k \in 0..n] == IF k = 0 THEN 0 ELSE F[k - 1] + (Len(fr[k].pcm) \div 2)
    IN F[n]

\* C11: a session has handed its audio track one packet for each binary frame
\* it has read (the frame whose packet is built and not yet written aside),
\* the i-th packet with floor(len/2) payload bytes of the i-th frame, whatever
\* the frame's length; a step adds at most one packet.
C11_OnePacketPerFrame ==
    /\ [](\A s \in Sessions :
            LET fr == BinaryFrames(uvIn[s])
                out == Packets(s)
            IN /\ Len(out) = Len(fr) - (IF uvLoop[s].pc = "write" THEN 1 ELSE 0)
               /\ \A i \in 1..Len(out) :
                    Len(out[i].packet.Payload) = Len(fr[i].pcm) \div 2
               /\ uvLoop[s].pc = "write" =>
                    Len(uvLoop[s].packet.Payload) = Len(fr[Len(fr)].pcm) \div 2)
    /\ [][\A p \in Peers :
            trackOut'[p] # trackOut[p] =>
               /\ Len(trackOut'[p]) = Len(trackOut[p]) + 1
               /\ SubSeq(trackOut'[p], 1, Len(trackOut[p])) = trackOut[p]]_vars

\* C11's case: an empty frame and a frame of three bytes each gave a packet,
\* of 0 and of 1 payload bytes.
C11_Witness ==
    /\ uvLoop[1].pc = "read"
    /\ uvIn[1] = <<BinaryFrame(PcmEmpty), BinaryFrame(PcmOdd)>>
    /\ Len(trackOut[1]) = 2
    /\ trackOut[1][1].packet.Payload = <<>> /\ Len(trackOut[1][2].packet.Payload) = 1

\* C12: the packets a session has written are those of its binary frames in
\* the order read; a frame is read only when the frame before it has been
\* handled to its end; a packet written, and a message written to an observer,
\* is that of the frame read last.
C12_ArrivalOrder ==
    /\ [](\A s \in Sessions :
            LET fr == BinaryFrames(uvIn[s])
                out == Packets(s)
            IN \A i \in 1..Len(out) :
                 /\ i <= Len(fr)
                 /\ out[i].packet.Payload = MuLawData(fr[i].pcm)
                 /\ out[i].packet.Header.SequenceNumber = (i - 1) % 65536)
    /\ [][\A s \in Sessions :
            /\ uvIn'[s] # uvIn[s] =>
                 /\ uvLoop[s].pc = "read" /\ uvLoop[s].message = ""
                 /\ uvLoop[s].packet = NoPacket
                 /\ Len(uvIn'[s]) = Len(uvIn[s]) + 1
                 /\ SubSeq(uvIn'[s], 1, Len(uvIn[s])) = uvIn[s]
            /\ Len(Packets(s))' > Len(Packets(s)) =>
                 /\ uvLoop[s].pc = "write" /\ uvLoop'[s].pc = "read"
                 /\ uvIn[s][Len(uvIn[s])].messageType = "BinaryMessage"
                 /\ Packets(s)' = Append(Packets(s),
                       [packet |-> uvLoop[s].packet, session |-> s,
                        ok |-> Packets(s)'[Len(Packets(s)')].ok])
                 /\ uvLoop[s].packet.Payload = MuLawData(uvIn[s][Len(uvIn[s])].pcm)
            /\ \A o \in Observers :
                 (/\ Len(clientOut'[o]) > Len(clientOut[o])
                  /\ clientOut'[o][Len(clientOut'[o])].session = s) =>
                     /\ uvLoop[s].pc = "forward" /\ uvLoop'[s].pc = "read"
                     /\ SubSeq(clientOut'[o], 1, Len(clientOut[o])) = clientOut[o]
                     /\ Len(clientOut'[o]) = Len(clientOut[o]) + 1
                     /\ clientOut'[o][Len(clientOut'[o])].message
                           = uvIn[s][Len(uvIn[s])].text]_vars

\* C12's case: two different binary frames were read and their two packets
\* written in that order.
C12_Witness ==
    /\ uvLoop[1].pc = "read"
    /\ uvIn[1] = <<BinaryFrame(PcmTwo), BinaryFrame(PcmOdd)>>
    /\ Len(trackOut[1]) = 2
    /\ trackOut[1][1].packet.Payload = MuLawData(PcmTwo)
    /\ trackOut[1][2].packet.Payload = MuLawData(PcmOdd)
    /\ MuLawData(PcmTwo) # MuLawData(PcmOdd)

\* C18 as claimed: a packet carries the sequence counter from before its
\* increment and a timestamp to which its own sample count is already added:
\* the i-th packet of a session is stamped with the samples of frames 1..i.
C18_Original ==
    \A s \in Sessions :
        LET fr == BinaryFrames(uvIn[s])
            out == Packets(s)
        IN \A i \in 1..Len(out) :
             /\ out[i].packet.Header.SequenceNumber = (i - 1) % 65536
             /\ out[i].packet.Header.Timestamp = <<0, SamplesBefore(fr, i)>>

\* C18 as amended: a packet carries both counters as they were before the
\* packet: the i-th packet of a session has sequence number i - 1 and the
\* samples of frames 1..i-1 as its timestamp (the first packet 0 and 0); the
\* packet's own sample count is added to the counter after the header is built.
C18_CountersBeforeThePacket ==
    \A s \in Sessions :
        LET fr == BinaryFrames(uvIn[s])
            out == Packets(s)
        IN /\ \A i \in 1..Len(out) :
                /\ out[i].packet.Header.SequenceNumber = (i - 1) % 65536
                /\ out[i].packet.Header.Timestamp = <<0, SamplesBefore(fr, i - 1)>>
           /\ uvLoop[s].pc = "write" =>
                /\ uvLoop[s].packet.Header.SequenceNumber = (Len(fr) - 1) % 65536
                /\ uvLoop[s].packet.Header.Timestamp = <<0, SamplesBefore(fr, Len(fr) - 1)>>
                /\ uvLoop[s].timestamp = <<0, SamplesBefore(fr, Len(fr))>>

\* C18's case: the first packet, of two samples, is stamped 0 and the second 2.
C18_Witness ==
    /\ uvIn[1] = <<BinaryFrame(PcmTwo), BinaryFrame(PcmOdd)>>
    /\ Len(trackOut[1]) = 2
    /\ trackOut[1][1].packet.Header.SequenceNumber = 0
    /\ trackOut[1][1].packet.Header.Timestamp = <<0, 0>>
    /\ trackOut[1][2].packet.Header.SequenceNumber = 1
    /\ trackOut[1][2].packet.Header.Timestamp = <<0, 2>>
    /\ uvLoop[1].timestamp = <<0, 3>>

\* C13 as claimed: no failure is a global abort: a failure to create the
\* voice call or to dial, in a step of a voice worker that is about to do
\* either while a media loop runs, leaves the process and that loop running.
C13_Original ==
    [][\A s \in Sessions :
         (/\ uvLoop[s].pc \in {"call", "dial"}
          /\ uvLog'[s] # uvLog[s]
          /\ \E t \in Tracks : inbound[t].pc = "read")
            => process' = "running"]_vars

\* C15: cancelling the context of a session ends its read loop.  The context
\* is cancelled by the deferred cancel of the worker that ran the loop, on its
\* return: a session whose context is cancelled has its loop at Closed and
\* its connection closed, and from then on the loop stays there, reads no
\* frame and writes no packet.
C15_CancelEndsLoop ==
    /\ [](\A s \in Sessions :
            uvConn[s].ctx = "cancelled" =>
               uvLoop[s].pc = "closed" /\ uvConn[s].wsConn = "closed")
    /\ [][\A s \in Sessions :
            uvConn[s].ctx = "cancelled" =>
               /\ uvLoop'[s].pc = "closed"
               /\ uvIn'[s] = uvIn[s]
               /\ Len(Packets(s))' = Len(Packets(s))]_vars

\* C15's case: session 1 read one binary frame and wrote its packet, then
\* its worker returned and cancelled the context; the loop is at Closed.
C15_Witness ==
    /\ uvConn[1].ctx = "cancelled"
    /\ uvLoop[1].pc = "closed"
    /\ Len(uvIn[1]) = 1 /\ uvIn[1][1].messageType = BinaryMessage
    /\ Len(Packets(1)) = 1

\* C14: the two read loops fail independently and do not retry: the step in
\* which a voice loop ends on a read error changes no media loop and no other
\* voice loop, the step in which a media loop ends on a read error changes no
\* voice loop and no session, and a loop that has ended never moves again.
C14_LoopsFailAlone ==
    [][/\ \A s \in Sessions :
            /\ (uvLoop[s].pc = "read" /\ uvLoop'[s].pc = "closed") =>
                  /\ inbound' = inbound /\ process' = process /\ uvOut' = uvOut
                  /\ \A r \in Sessions \ {s} : uvLoop'[r] = uvLoop[r] /\ uvConn'[r] = uvConn[r]
                  /\ activeUltravoxConnection' = activeUltravoxConnection
            /\ uvLoop[s].pc = "closed" => (uvLoop'[s] = uvLoop[s] /\ uvIn'[s] = uvIn[s])
       /\ \A t \in Tracks :
            /\ (inbound[t].pc = "read" /\ inbound'[t].pc = "ended") =>
                  /\ uvLoop' = uvLoop /\ uvConn' = uvConn /\ process' = process
                  /\ \A u \in Tracks \ {t} : inbound'[u] = inbound[u]
                  /\ inbound'[t].reads = inbound[t].reads
                  /\ inbound'[t].log = Append(inbound[t].log,
                        [format |-> "Error reading from track: %v", a |-> "", b |-> ""])
            /\ inbound[t].pc = "ended" => inbound'[t] = inbound[t]]_vars

\* C14's case: session 1's voice loop has ended on a read error and the media
\* loop, still running, has since found session 2 in the registry, whose
\* voice loop is connected.
C14_Witness ==
    /\ uvLoop[1].pc = "closed"
    /\ uvLog[1] = Append(logCallInfo,
                         [format |-> "WebSocket read error: %v", a |-> "", b |-> ""])
    /\ uvLoop[2].pc = "read"
    /\ \E t \in Tracks : inbound[t].pc = "send" /\ inbound[t].activeUVConn = 2

\* C16 as claimed, for the two states the transport reaches by itself: a
\* transition of the media transport to disconnected or to failed tears the
\* media side down (its done channel is closed), creates no session, and
\* leaves the process running.
C16_Original ==
    [][\A p \in Peers :
         (/\ webrtcConn'[p].ice # webrtcConn[p].ice
          /\ webrtcConn'[p].ice \in {"disconnected", "failed"}) =>
            /\ process' = "running"
            /\ webrtcConn'[p].done = "closed"
            /\ uvConn' = uvConn /\ uvLoop' = uvLoop
            /\ activeUltravoxConnection' = activeUltravoxConnection]_vars

\* C17: a negotiation in which applying the remote description or creating
\* the answer fails (or any step before the handler waits for the end of ICE
\* gathering) is answered with an error and no answer; it changes neither
\* the registry nor any session, and no session is ever created on its peer
\* connection, whose ICE agent never starts.  An answer is returned only by
\* a negotiation that did not fail, and a negotiation whose answer could not
\* be encoded is answered with an error as well.
C17_FailedNegotiation ==
    /\ [](\A p \in Peers :
            /\ webrtcConn[p].offer \in {"remote", "answer"} => webrtcConn[p].response = "500"
            /\ webrtcConn[p].offer \in {"parse", "setup", "remote", "answer", "local"} =>
                  /\ webrtcConn[p].response \in {"400", "500"}
                  /\ iceCallback[p] = [pc |-> "idle", uvConn |-> 0]
                  /\ \A s \in Sessions : uvConn[s].audioTrack # p
                  /\ webrtcConn[p].ice = "new"
            /\ webrtcConn[p].offer = "encode" => webrtcConn[p].response = "500"
            /\ webrtcConn[p].response = "answer" <=> webrtcConn[p].offer = "ok")
    /\ [][\A p \in Peers :
            (/\ webrtcConn'[p].offer # webrtcConn[p].offer
             /\ webrtcConn'[p].offer \notin {"gathering", "ok"}) =>
               /\ activeUltravoxConnection' = activeUltravoxConnection
               /\ lastSet' = lastSet /\ uvConn' = uvConn /\ uvLoop' = uvLoop
               /\ process' = process]_vars

\* C17's case: with the session of a first negotiation in the registry, a
\* second negotiation failed at its remote description: a 500, the registry
\* as it was.
C17_Witness ==
    /\ webrtcConn[1].offer = "ok" /\ webrtcConn[1].response = "answer"
    /\ activeUltravoxConnection = 1 /\ uvConn[1].audioTrack = 1
    /\ webrtcConn[2].offer = "remote" /\ webrtcConn[2].response = "500"
    /\ webrtcConn[2].ice = "new"

\* C19: a G.711 payload of n bytes decodes to 2n bytes of PCM, and the packet
\* made of that PCM has a payload of n bytes again, the timestamp counter
\* advanced by n and the sequence counter by 1: 320, 160, 160 and 1 for a
\* payload of 160 bytes.
C19_DecodeDoublesPacketizeHalves ==
    /\ ~loopback.err
    /\ Len(loopback.pcmData) = 2 * Len(loopback.payload)
    /\ (loopback.stage = "idle" /\ loopback.rounds >= 1) =>
          /\ Len(loopback.packet.Payload) = Len(loopback.pcmData) \div 2
          /\ Len(loopback.packet.Payload) = Len(loopback.payload)
          /\ loopback.timestamp = Add32(loopback.before.timestamp, Len(loopback.payload))
          /\ loopback.sequenceNumber = (loopback.before.sequenceNumber + 1) % 65536
    /\ (Len(loopback.payload) = 160 /\ loopback.stage = "idle") =>
          /\ Len(loopback.pcmData) = 320 /\ Len(loopback.packet.Payload) = 160
          /\ loopback.timestamp[2] = (loopback.before.timestamp[2] + 160) % 65536

\* C19's case: a second payload of 160 bytes, A-law, went through both
\* transcoders after a first of 160 bytes: 320 bytes of PCM, 160 of payload,
\* the timestamp from 160 to 320, the sequence counter from 1 to 2.
C19_Witness ==
    /\ loopback.stage = "idle" /\ loopback.rounds = 2
    /\ Len(loopback.payload) = 160 /\ loopback.mimeType = MimeTypePCMA
    /\ Len(loopback.pcmData) = 320 /\ Len(loopback.packet.Payload) = 160
    /\ loopback.before.timestamp = <<0, 160>> /\ loopback.timestamp = <<0, 320>>
    /\ loopback.before.sequenceNumber = 1 /\ loopback.sequenceNumber = 2

\* C20: every packet a session builds or has written has version 2, payload
\* type 0 and stream identifier 12345, whatever the session, the packet and
\* the codec of the remote track.
C20_FixedHeaderFields ==
    /\ \A p \in Peers : \A i \in 1..Len(trackOut[p]) :
         /\ trackOut[p][i].packet.Header.Version = 2
         /\ trackOut[p][i].packet.Header.PayloadType = 0
         /\ trackOut[p][i].packet.Header.SSRC = 12345
    /\ \A s \in Sessions :
         uvLoop[s].pc = "write" =>
            /\ uvLoop[s].packet.Header.Version = 2
            /\ uvLoop[s].packet.Header.PayloadType = 0
            /\ uvLoop[s].packet.Header.SSRC = 12345

\* C20's case: with an A-law remote track, two sessions have each written a
\* packet, both with the same three fields.
C20_Witness ==
    /\ inbound[1].pc = "read" /\ inbound[1].mimeType = MimeTypePCMA
    /\ Len(trackOut[1]) = 2
    /\ trackOut[1][1].session = 1 /\ trackOut[1][2].session = 2
    /\ trackOut[1][1].packet.Header.SSRC = 12345
    /\ trackOut[1][2].packet.Header.SSRC = 12345
    /\ trackOut[1][2].packet.Header.PayloadType = 0

\* The magnitude of a sample, and the segment of the mu-law scale it falls in
\* once clipped and biased.
Magnitude(sample) == IF sample < 0 THEN -sample ELSE sample
UlawSegment(sample) ==
    LET biased == (IF Magnitude(sample) > 32635 THEN 32635 ELSE Magnitude(sample)) + 132
    IN CHOOSE e \in 0..7 : biased \div (2 ^ (e + 7)) = 1

\* The quantization tolerance of mu-law at a sample: half the step of its
\* segment (4 in the lowest, 512 in the highest), and what clipping takes
\* off a magnitude above 32635.
UlawTolerance(sample) ==
    2 ^ (UlawSegment(sample) + 2)
        + (IF Magnitude(sample) > 32635 THEN Magnitude(sample) - 32635 ELSE 0)

\* C21 as claimed: every 16-bit sample encoded by the outbound codec (mu-law)
\* and decoded again differs from the original by no more than the codec's
\* quantization tolerance at that sample, and keeps its sign.
C21_Original ==
    roundTrip.stage = "decoded" =>
        /\ Magnitude(roundTrip.decoded - roundTrip.sample) <= UlawTolerance(roundTrip.sample)
        /\ roundTrip.sample > 0 => roundTrip.decoded >= 0
        /\ roundTrip.sample < 0 => roundTrip.decoded <= 0

\* C22, as stated: once the API has answered, Call returns a nil call and an
\* error when the status is outside 200-299, when the body is not valid JSON
\* (or not the JSON of a call) or when the decoded response has an empty join
\* URL; otherwise it returns a
\* call with the response's call id and join URL and no error; and it never
\* returns both a call and an error.
C22_Original ==
    (client.request.sent /\ ~client.pending /\ ~client.response.err) =>
        LET response == client.response
            callResp == DecodeCall(response.Body)
            failure == \/ response.StatusCode < 200 \/ response.StatusCode >= 300
                       \/ ~ValidJSON(response.Body) \/ callResp.err
                       \/ callResp.JoinURL = ""
        IN /\ failure => (client.call.nil /\ client.err # "")
           /\ ~failure => /\ ~client.call.nil /\ client.err = ""
                          /\ client.call.CallID = CallID123
                          /\ client.call.JoinURL = JoinURL123
           /\ ~(~client.call.nil /\ client.err # "")

\* C23, as stated: whatever calls were made with whatever options, the
\* configuration the client stores is the one it was made with, and a Call
\* with no options sends those defaults.
C23_Original ==
    client.made =>
        /\ client.config = client.original
        /\ client.context = client.originalContext
        /\ (client.request.sent /\ client.opts = <<>>) =>
              /\ client.request.body = RequestFromConfig(client.original)
              /\ client.request.context = client.originalContext

\* The pieces of a URL that introduce a query parameter.
QueryPieces(url) ==
    {i \in 1..Len(url) : url[i] \in {"?priorCallId=", "&priorCallId=",
                                     "?enableGreetingPrompt=true",
                                     "&enableGreetingPrompt=true"}}

\* C24: the URL of a call request carries priorCallId=<id> when a prior call
\* id is set and enableGreetingPrompt=true when the greeting prompt is
\* enabled; the first parameter present is introduced by ?, a further one by
\* &, and with neither set the URL is the endpoint with no query string.
C24_QueryParameters ==
    client.request.sent =>
        LET url == client.request.url
            request == client.request.body
            endpoint == buildCallURL(client.config, request)
            q == QueryPieces(url)
        IN /\ SubSeq(url, 1, Len(endpoint)) = endpoint
           /\ request.PriorCallId # "" <=>
                 \E i \in q : /\ url[i] \in {"?priorCallId=", "&priorCallId="}
                              /\ i < Len(url) /\ url[i + 1] = request.PriorCallId
           /\ request.EnableGreetingPrompt <=>
                 \E i \in q : url[i] \in {"?enableGreetingPrompt=true",
                                          "&enableGreetingPrompt=true"}
           /\ \A i \in q :
                 IF \A j \in q : i <= j
                 THEN url[i] \in {"?priorCallId=", "?enableGreetingPrompt=true"}
                 ELSE url[i] \in {"&priorCallId=", "&enableGreetingPrompt=true"}
           /\ Cardinality(q) = (IF request.PriorCallId # "" THEN 1 ELSE 0)
                                 + (IF request.EnableGreetingPrompt THEN 1 ELSE 0)
           /\ (request.PriorCallId = "" /\ ~request.EnableGreetingPrompt) => url = endpoint

\* C24's case: a request with both parameters: the greeting prompt after ?,
\* the prior call id after &.
C24_Witness ==
    /\ client.request.sent
    /\ client.request.body.PriorCallId = "prior-call-123"
    /\ client.request.body.EnableGreetingPrompt
    /\ client.request.url = <<DefaultAPIBaseURL, "/calls", "?enableGreetingPrompt=true",
                              "&priorCallId=", "prior-call-123">>

\* Whether a text is digits, or digits, a point and digits, after a minus
\* sign if there is one.
IsDecimal(text) ==
    LET number == IF text # <<>> /\ text[1] = "-" THEN Tail(text) ELSE text
        pl == DigitSpan(number)
        rest == SubSeq(number, pl + 1, Len(number))
    IN /\ pl >= 1
       /\ \/ rest = <<>>
          \/ /\ rest[1] = "." /\ Len(rest) >= 2
             /\ DigitSpan(Tail(rest)) = Len(rest) - 1

\* Whether d is whole seconds, and the duration of the seconds a numeral of
\* digits, or of digits, a point and up to nine digits, names.
WholeSeconds(d) == NatDiv(d.ns, Second).rem = <<>>
SecondsNamed(n) ==
    LET pl == DigitSpan(n)
        frac == SubSeq(n, pl + 2, Len(n))
    IN [neg |-> FALSE,
        ns |-> NatOfText(SubSeq(n, 1, pl) \o frac \o [i \in 1..(9 - Len(frac)) |-> "0"])]

\* C25, as stated: a duration marshals to a string of seconds ending in s,
\* with no decimal places when the seconds are whole and a decimal fraction
\* otherwise; a number n, the string n and the string ns unmarshal to the
\* same duration of n seconds; and a duration of whole seconds marshalled and
\* unmarshalled is the duration again.
C25_Original ==
    /\ duration.stage \in {"marshalled", "back"} =>
          LET text == SubSeq(duration.json, 2, Len(duration.json) - 1)
              number == SubSeq(text, 1, Len(text) - 1)
          IN /\ duration.json = Quoted(text)
             /\ text[Len(text)] = "s"
             /\ IsDecimal(number)
             /\ WholeSeconds(duration.d) <=> \A i \in 1..Len(number) : number[i] # "."
             /\ duration.d = Duration(0, 5 * (10 ^ 8)) => text = <<"0", ".", "5", "s">>
             /\ duration.d = Duration(0, 10 ^ 8) => text = <<"0", ".", "1", "s">>
             /\ duration.d = Duration(10, 0) => text = <<"1", "0", "s">>
             /\ duration.d = Duration(30, 0) => text = <<"3", "0", "s">>
    /\ duration.stage = "read" =>
          /\ ~duration.number.err /\ ~duration.numeric.err /\ ~duration.seconds.err
          /\ duration.number = duration.numeric /\ duration.numeric = duration.seconds
          /\ duration.number.d = SecondsNamed(duration.n)
    /\ (duration.stage = "back" /\ WholeSeconds(duration.d)) =>
          /\ ~duration.back.err /\ duration.back.d = duration.d

\* C26, as stated: at most one session's read loop is connected on a given
\* audio track at any time, and once a newer session has been registered no
\* older session writes a packet to that track.
C26_Original ==
    /\ [](\A s, t \in Sessions :
            (/\ s # t /\ uvConn[s].created /\ uvConn[t].created
             /\ uvConn[s].audioTrack = uvConn[t].audioTrack
             /\ uvLoop[s].pc \in Connected)
               => uvLoop[t].pc \notin Connected)
    /\ [][\A p \in Peers :
            Len(trackOut'[p]) > Len(trackOut[p])
               => trackOut'[p][Len(trackOut'[p])].session = lastSet]_vars

\* C27, as stated: a worker reads a cross-component reference under the
\* registry lock, so no other worker holds that lock in the step in which the
\* inbound loop reads the session's wsConn or the relay reads its clientWs;
\* and the relay never uses an observer reference that was detached between
\* its check and its write: the write goes to the connection the session
\* still refers to, and never through a nil reference (the only step that
\* ends the process and leaves the peer connections alone).
C27_Original ==
    /\ [][\A t \in Tracks :
            (inbound[t].pc = "found" /\ inbound'[t].pc # "found")
               => activeUltravoxLock \in {NoHolder, TrackWorker(t)}]_vars
    /\ [][\A s \in Sessions :
            (uvLoop[s].pc # "forward" /\ uvLoop'[s].pc = "forward")
               => activeUltravoxLock = NoHolder]_vars
    /\ [][\A s \in Sessions :
            (uvLoop[s].pc = "forward" /\ uvLoop'[s].pc # "forward")
               => /\ uvConn[s].clientWs = uvLoop[s].clientWs
                  /\ observer[uvLoop[s].clientWs].conn = "open"]_vars
    /\ [][(process' = "panicked" /\ webrtcConn' = webrtcConn) => FALSE]_vars

\* C28, as stated: writes to a transport are serialized.  No two inbound
\* loops are at once in the write to one voice connection, no two sessions at
\* once in the write to one outbound audio track, and no two sessions at once
\* in the write to one observer connection.
C28_Original ==
    /\ \A t, u \in Tracks :
          (t # u /\ inbound[t].pc = "send" /\ inbound[u].pc = "send")
             => inbound[t].activeUVConn # inbound[u].activeUVConn
    /\ \A s, t \in Sessions :
          (s # t /\ uvLoop[s].pc = "write" /\ uvLoop[t].pc = "write")
             => uvConn[s].audioTrack # uvConn[t].audioTrack
    /\ \A s, t \in Sessions :
          (s # t /\ uvLoop[s].pc = "forward" /\ uvLoop[t].pc = "forward")
             => uvLoop[s].clientWs # uvLoop[t].clientWs

\* C29: a failed send is logged, never retried, and does not end its loop.
\* A packet whose write fails is logged, the loop is back at its read with
\* the counters already advanced, the packet is never written again and the
\* next packet carries the next sequence number; a failed write of inbound
\* audio to the voice connection, or of a control message to the observer, is
\* logged and the loop goes on to its next item, each item being sent once
\* at most.
C29_FailedSendNotRetried ==
    /\ [](\A s \in Sessions :
            LET out == Packets(s)
            IN /\ \A i, j \in 1..Len(out) : i # j => out[i].packet # out[j].packet
               /\ \A i \in 1..Len(out) : out[i].packet.Header.SequenceNumber = i - 1
               /\ uvLoop[s].pc = "write" =>
                     /\ uvLoop[s].packet.Header.SequenceNumber = Len(out)
                     /\ uvLoop[s].sequenceNumber = Len(out) + 1)
    /\ [][\A s \in Sessions :
            (/\ Len(Packets(s)') > Len(Packets(s))
             /\ ~Packets(s)'[Len(Packets(s)')].ok)
               => /\ uvLoop'[s].pc = "read"
                  /\ uvLoop'[s].sequenceNumber
                       = uvLoop[s].packet.Header.SequenceNumber + 1
                  /\ uvLoop'[s].timestamp = uvLoop[s].timestamp
                  /\ uvLog'[s] = Append(uvLog[s],
                                        LogLine("Failed to write to track: %v", "", ""))
                  /\ process' = "running"]_vars
    /\ [](\A t \in Tracks :
            \A c, d \in Sessions : \A i \in 1..Len(uvOut[c]), j \in 1..Len(uvOut[d]) :
               (uvOut[c][i].track = t /\ uvOut[d][j].track = t /\ <<c, i>> # <<d, j>>)
                  => uvOut[c][i].read # uvOut[d][j].read)
    /\ [][\A t \in Tracks :
            (/\ inbound[t].pc = "send"
             /\ uvOut'[inbound[t].activeUVConn] # uvOut[inbound[t].activeUVConn]
             /\ ~uvOut'[inbound[t].activeUVConn][Len(uvOut'[inbound[t].activeUVConn])].ok)
               => /\ inbound'[t].pc = "read"
                  /\ inbound'[t].reads = inbound[t].reads
                  /\ inbound'[t].log = Append(inbound[t].log,
                        LogLine("Error sending audio to Ultravox: %v", "", ""))
                  /\ uvConn'[inbound[t].activeUVConn].wsLock = NoHolder
                  /\ process' = "running"]_vars
    /\ [](\A s \in Sessions :
            LET From(e) == e.session = s
                sent == UNION {{<<o, i>> : i \in {j \in 1..Len(clientOut[o]) :
                                                     From(clientOut[o][j])}} :
                                  o \in Observers}
            IN Cardinality(sent) + (IF uvLoop[s].pc = "forward" THEN 1 ELSE 0)
                  <= Cardinality(TextsRead(uvIn[s], TxtState)))
    /\ [][\A s \in Sessions :
            (/\ uvLoop[s].pc = "forward" /\ uvLoop'[s].pc # "forward"
             /\ \E o \in Observers :
                   /\ clientOut'[o] # clientOut[o]
                   /\ ~clientOut'[o][Len(clientOut'[o])].ok)
               => /\ uvLoop'[s].pc = "read"
                  /\ Lines(uvLog'[s], "Error forwarding event to client: %v")
                       = Lines(uvLog[s], "Error forwarding event to client: %v")
                           \cup {Len(uvLog[s]) + 1}
                  /\ process' = "running"]_vars

\* C29's case: the write of packet 0 failed and packet 1 was written after
\* it; the first inbound buffer failed on the voice connection and the media
\* loop has read its second packet.
C29_Witness ==
    /\ Len(Packets(1)) = 2
    /\ ~Packets(1)[1].ok /\ Packets(1)[1].packet.Header.SequenceNumber = 0
    /\ Packets(1)[2].ok /\ Packets(1)[2].packet.Header.SequenceNumber = 1
    /\ Len(uvOut[1]) >= 1 /\ ~uvOut[1][1].ok
    /\ \E t \in Tracks : inbound[t].reads = 2 /\ inbound[t].pc = "send"

\* C30, as stated: a session is dereferenced when its connection observes a
\* terminal state.  While the media transport of a session is failed,
\* disconnected or closed, or once its voice loop is Closed, the registry
\* does not return that session to the inbound loop and no inbound audio is
\* written to its voice connection.
C30_Original ==
    [][\A s \in Sessions :
         (/\ uvConn[s].created
          /\ \/ webrtcConn[uvConn[s].audioTrack].ice \in IceTerminal
             \/ uvLoop[s].pc = "closed")
            => /\ \A t \in Tracks :
                    (inbound[t].pc = "finding" /\ inbound'[t].pc = "found")
                       => inbound'[t].activeUVConn # s
               /\ uvOut'[s] = uvOut[s]]_vars

\* C31: the decoder of an inbound stream is resolved exactly once, before
\* its first packet, and stays the decoder of every packet.  A worker calls
\* createAudioDecoder once at most, never before it starts and always
\* before it reads; an Opus stream holds a decoder instance and a G.711
\* stream holds none; no two streams hold the same instance; once resolved,
\* neither the decoder nor the instance changes again; and an Opus packet is
\* only ever decoded with the Opus decoder of its stream.
C31_DecoderResolvedOnce ==
    /\ [](\A t \in Tracks :
            /\ inbound[t].decoders <= 1
            /\ inbound[t].pc \in {"none", "start", "ignored"} => inbound[t].decoders = 0
            /\ inbound[t].pc \notin {"none", "start", "ignored"} => inbound[t].decoders = 1
            /\ inbound[t].reads > 0 => inbound[t].decoders = 1
            /\ inbound[t].instance # 0 <=> inbound[t].decoder = "opus"
            /\ \A u \in Tracks \ {t} :
                  inbound[t].instance # 0 => inbound[t].instance # inbound[u].instance)
    /\ [][\A t \in Tracks :
            /\ inbound[t].decoders = 1 =>
                  /\ inbound'[t].decoders = 1
                  /\ inbound'[t].decoder = inbound[t].decoder
                  /\ inbound'[t].instance = inbound[t].instance
            /\ (inbound[t].decoders = 0 /\ inbound'[t].decoders = 1) =>
                  /\ inbound'[t].reads = 0
                  /\ inbound'[t].decoder = "opus" <=> inbound[t].mimeType = MimeTypeOpus
                  /\ inbound'[t].pc = "read" <=>
                        inbound[t].mimeType \in {MimeTypeOpus, MimeTypePCMA, MimeTypePCMU}
            /\ (/\ inbound'[t].reads = inbound[t].reads + 1
                /\ inbound'[t].pc = "find"
                /\ inbound'[t].mimeType = MimeTypeOpus) =>
                  inbound[t].decoder = "opus" /\ inbound[t].instance # 0]_vars

\* C31's case: two Opus streams, each with its own decoder instance, and
\* each past its second packet.
C31_Witness ==
    /\ \A t \in {1, 2} :
          /\ inbound[t].decoder = "opus" /\ inbound[t].decoders = 1
          /\ inbound[t].reads = 2
    /\ inbound[1].instance # inbound[2].instance

\* C32, as stated: CallAgent posts to <base>/agents/<agentID>/calls with the
\* agentID it was given, whatever agent id its options carry; Call with no
\* agent id among its options posts to <base>/calls; and the agent id is no
\* member of the JSON body.
C32_Original ==
    client.request.sent =>
       LET url == client.request.url
           base == client.config.APIBaseURL
           named == \E i \in 1..Len(client.opts) : client.opts[i].option = "WithCallAgentID"
       IN /\ client.method = "CallAgent" =>
                /\ Len(url) >= 4
                /\ SubSeq(url, 1, 4) = <<base, "/agents/", client.agentID, "/calls">>
          /\ (client.method = "Call" /\ ~named) =>
                /\ Len(url) >= 2
                /\ SubSeq(url, 1, 2) = <<base, "/calls">>
          /\ client.request.members \cap {"agentId", "agentID", "AgentID"} = {}

\* C33, as stated: whatever the sequence of connection states of a peer
\* connection, its done channel is closed at most once (a state change that
\* finds it closed leaves it alone) and the state-change handler never
\* faults: the process is running after every state change.
C33_Original ==
    [][\A p \in Peers :
         webrtcConn'[p].ice # webrtcConn[p].ice =>
            /\ process' = "running"
            /\ webrtcConn[p].done = "closed" => webrtcConn'[p].done = "closed"]_vars

\* C34, as stated: when an observer connection closes, only that observer is
\* detached.  The step in which an observer's handler detaches leaves the
\* reference of every session to another observer as it is.
C34_Original ==
    [][\A o \in Observers :
         (observer[o].pc = "detaching" /\ observer'[o].pc = "close") =>
            \A s \in Sessions :
               uvConn[s].clientWs \notin {0, o} => uvConn'[s].clientWs = uvConn[s].clientWs]_vars

\* The step reads a frame of session s that is not binary.
ReadsNoAudio(s) ==
    /\ Len(uvIn'[s]) = Len(uvIn[s]) + 1
    /\ uvIn'[s][Len(uvIn'[s])].messageType # BinaryMessage

\* C35: only binary frames change the packet counters.  The step that reads
\* a text frame or a frame of another type, and the step that forwards a
\* text frame, leave the loop's sequence number and timestamp as they are
\* and write nothing to any audio track; once the loop is connected its
\* counters change only in the step that reads a binary frame; and the steps
\* that handle a binary frame (its read and its write to the track) write
\* nothing to any observer.
C35_OnlyBinaryMovesCounters ==
    [][\A s \in Sessions :
         /\ (ReadsNoAudio(s) \/ uvLoop[s].pc = "forward") =>
               /\ uvLoop'[s].sequenceNumber = uvLoop[s].sequenceNumber
               /\ uvLoop'[s].timestamp = uvLoop[s].timestamp
               /\ uvLoop'[s].pc # "write"
               /\ trackOut' = trackOut
         /\ (/\ uvLoop[s].pc \in Connected
             /\ \/ uvLoop'[s].sequenceNumber # uvLoop[s].sequenceNumber
                \/ uvLoop'[s].timestamp # uvLoop[s].timestamp) =>
               /\ Len(uvIn'[s]) = Len(uvIn[s]) + 1
               /\ uvIn'[s][Len(uvIn'[s])].messageType = BinaryMessage
         /\ (\/ uvLoop[s].pc = "write"
             \/ /\ Len(uvIn'[s]) = Len(uvIn[s]) + 1
                /\ uvIn'[s][Len(uvIn'[s])].messageType = BinaryMessage) =>
               clientOut' = clientOut]_vars

\* C35's case: session 1 has read a binary frame, whose packet is on the
\* track, and then a frame of another type, and is at the top of its loop
\* with the counters that the one binary frame left; nothing was written
\* to an observer.
C35_Witness ==
    /\ Len(uvIn[1]) = 2
    /\ uvIn[1][1].messageType = BinaryMessage
    /\ uvIn[1][2].messageType \in OtherMessageTypes
    /\ Len(Packets(1)) = 1
    /\ \A o \in Observers : clientOut[o] = <<>>
    /\ uvLoop[1].pc = "read"
    /\ uvLoop[1].sequenceNumber = (InitialSequenceNumber + 1) % 65536

\* C36 as claimed, the part about the two locks: the registry lock and a
\* session's write lock are never held at the same time, whoever holds them.
C36_Original ==
    \A s \in Sessions :
        ~(activeUltravoxLock # NoHolder /\ uvConn[s].wsLock # NoHolder)

\* C36 as amended: the bridge's locks cannot deadlock.  The holder of the
\* registry lock is inside the critical section of the set, the find, the
\* attach or the detach, never at a transport read or write, and its
\* releasing step can be taken; no worker holds the registry lock and a session's write lock
\* together; the holder of a session's write lock is the media worker at its
\* send, whose step can be taken; and that step, the write succeeding or
\* failing, leaves the write lock free.
C36_LocksCannotDeadlock ==
    /\ [](process = "running" =>
            /\ \A p \in Peers :
                  activeUltravoxLock = IceWorker(p) =>
                     iceCallback[p].pc = "set" /\ ENABLED IceSetActive(p)
            /\ \A t \in Tracks :
                  activeUltravoxLock = TrackWorker(t) =>
                     /\ inbound[t].pc = "finding" /\ ENABLED InboundFind(t)
                     /\ \A s \in Sessions : uvConn[s].wsLock # TrackWorker(t)
            /\ \A o \in Observers :
                  activeUltravoxLock = ObserverWorker(o) =>
                     /\ observer[o].pc \in {"attaching", "detaching"}
                     /\ ENABLED (ObserverAttach(o) \/ ObserverDetach(o))
            /\ \A s \in Sessions :
                  uvConn[s].wsLock # NoHolder =>
                     \E t \in Tracks :
                        /\ uvConn[s].wsLock = TrackWorker(t)
                        /\ inbound[t].pc = "send" /\ inbound[t].activeUVConn = s
                        /\ ENABLED InboundSend(t, FALSE))
    /\ [][\A t \in Tracks :
            (inbound[t].pc = "send" /\ inbound'[t].pc # "send") =>
               /\ Len(uvOut'[inbound[t].activeUVConn])
                     = Len(uvOut[inbound[t].activeUVConn]) + 1
               /\ \A s \in Sessions : uvConn'[s].wsLock # TrackWorker(t)]_vars

\* C36's case: one media worker holds the session's write lock at its send
\* while the other, past its find, waits for it and an observer holds the
\* registry lock; a failed write has already been followed by another send.
C36_Witness ==
    /\ process = "running"
    /\ uvConn[1].wsLock = TrackWorker(1)
    /\ inbound[2].pc = "found" /\ inbound[2].activeUVConn = 1
    /\ \E o \in Observers : activeUltravoxLock = ObserverWorker(o)
    /\ \E i \in 1..Len(uvOut[1]) : ~uvOut[1][i].ok

\* C37: a read loop that ends after a successful dial, on a read error or on
\* a cancellation it observes, leaves the voice-session connection closed and
\* the context cancelled.  The connection is open until that step and is
\* closed only by it; a context that is cancelled stays cancelled, so it is
\* cancelled once; and after the close the loop reads no frame, writes no
\* packet, logs nothing and keeps its position and counters.
C37_LoopEndClosesOnce ==
    /\ [](\A s \in Sessions :
            /\ uvConn[s].wsConn = "closed" <=> uvLoop[s].pc = "closed"
            /\ uvLoop[s].pc = "closed" => uvConn[s].ctx = "cancelled"
            /\ uvLoop[s].pc \in Connected => uvConn[s].wsConn = "open")
    /\ [][\A s \in Sessions :
            /\ (uvLoop[s].pc \in Connected /\ uvLoop'[s].pc \notin Connected) =>
                  /\ uvLoop'[s].pc = "closed"
                  /\ uvConn'[s].wsConn = "closed"
                  /\ uvConn'[s].ctx = "cancelled"
            /\ uvConn[s].ctx = "cancelled" => uvConn'[s].ctx = "cancelled"
            /\ uvLoop[s].pc = "closed" =>
                  /\ uvLoop'[s] = uvLoop[s]
                  /\ uvConn'[s].wsConn = "closed"
                  /\ uvIn'[s] = uvIn[s]
                  /\ uvLog'[s] = uvLog[s]
                  /\ Packets(s)' = Packets(s)]_vars

\* C37's case: session 1 dialled, handled two frames and left its loop on a
\* read error; its connection is closed and its context cancelled.
C37_Witness ==
    /\ uvLoop[1].pc = "closed"
    /\ Len(uvIn[1]) = 2 /\ Len(Packets(1)) = 2
    /\ uvLog[1] # <<>>
    /\ uvLog[1][Len(uvLog[1])] = LogLine("WebSocket read error: %v", "", "")
    /\ uvConn[1].wsConn = "closed" /\ uvConn[1].ctx = "cancelled"

\* The options that select a transport, and the member of CallMedium each
\* of them chooses.
MediumSelecting ==
    {"WithCallWebSocketMedium", "WithCallWebSocketMediumBuffered",
     "WithCallWebRTCMedium", "WithCallTwilioMedium",
     "WithCallTelnyxMedium", "WithCallPlivoMedium", "WithCallExotelMedium",
     "WithCallSIPOutgoing", "WithCallSIPIncoming"}
TransportOf(name) ==
    CASE name \in {"WithCallWebSocketMedium", "WithCallWebSocketMediumBuffered"} ->
           "ServerWebSocket"
      [] name = "WithCallWebRTCMedium" -> "WebRTC"
      [] name = "WithCallTwilioMedium" -> "Twilio"
      [] name = "WithCallTelnyxMedium" -> "Telnyx"
      [] name = "WithCallPlivoMedium" -> "Plivo"
      [] name = "WithCallExotelMedium" -> "Exotel"
      [] OTHER -> "SIP"
TransportsSet(medium) == {f \in DOMAIN medium : medium[f] # <<>>}

\* C38: each medium-selecting option replaces the whole medium.  In the
\* request that Call sent, when the last option applied selects a transport,
\* the medium is not nil, exactly one of its transport members is set and it
\* is the one of that option, with the values the option was made with; of
\* a SIP medium exactly the chosen direction is set.  The medium of the
\* client's configuration is the one NewClient made.
C38_LastMediumOptionWins ==
    /\ client.made =>
          client.config.CallRequest.Medium = DefaultConfig.CallRequest.Medium
    /\ (/\ client.request.sent
        /\ client.opts # <<>>
        /\ client.opts[Len(client.opts)].option \in MediumSelecting) =>
          LET last == client.opts[Len(client.opts)]
              Medium == client.request.body.Medium
          IN /\ Medium # <<>>
             /\ "medium" \in client.request.members
             /\ TransportsSet(Medium[1]) = {TransportOf(last.option)}
             /\ last.option = "WithCallWebSocketMedium" =>
                   Medium[1].ServerWebSocket =
                      <<WebSocketMedium(last.args[1], last.args[2])>>
             /\ last.option = "WithCallWebSocketMediumBuffered" =>
                   Medium[1].ServerWebSocket =
                      <<[InputSampleRate |-> last.args[1],
                         OutputSampleRate |-> last.args[2],
                         ClientBufferSizeMs |-> last.args[3]]>>
             /\ last.option = "WithCallSIPIncoming" =>
                   TransportsSet(Medium[1].SIP[1]) = {"Incoming"}
             /\ last.option = "WithCallSIPOutgoing" =>
                   /\ TransportsSet(Medium[1].SIP[1]) = {"Outgoing"}
                   /\ Medium[1].SIP[1].Outgoing[1] =
                         [To |-> last.args[1], From |-> last.args[2],
                          Username |-> last.args[3], Password |-> last.args[4]]

\* C38's case: a call made with the outgoing SIP option and then the WebRTC
\* option was sent with a medium whose only transport is WebRTC.
C38_Witness ==
    /\ client.request.sent
    /\ Len(client.opts) = 2
    /\ client.opts[1].option = "WithCallSIPOutgoing"
    /\ client.opts[2].option = "WithCallWebRTCMedium"
    /\ client.request.body.Medium # <<>>
    /\ client.request.body.Medium[1].WebRTC = <<EmptyStruct>>
    /\ client.request.body.Medium[1].SIP = <<>>

====
